---- MODULE Spec2Model ----
(***************************************************************************)
(* Real-time media sink engine of openauto (RK3229 build):                 *)
(*   - LockFreeRingBuffer<Capacity>   (Projection/LockFreeRingBuffer.hpp)  *)
(*   - RtAudioOutput                  (Projection/RtAudioOutput.cpp)       *)
(*   - RtAudioInput                   (Projection/RtAudioInput.cpp)        *)
(*   - FFmpegDrmVideoOutput           (Projection/FFmpegDrmVideoOutput.cpp)*)
(* Every thread of the program is a process of the model; a process record *)
(* holds its program counter and the locals of the function it executes.   *)
(***************************************************************************)
EXTENDS Integers, Sequences, FiniteSets, TLC

(***************************************************************************)
(* Bounds of the model.                                                    *)
(***************************************************************************)
\* log2 of the ring buffer capacity (the program uses 2^18 and 2^16)
CapLog == 2
\* number of payload bytes the ring buffer accepts in one run
MaxProduced == 7
\* number of clear() calls in one run
MaxClears == 1
\* number of read() requests in one run
MaxReads == 2
\* buffers of the decoder's frame pool
NumBufs == 3
\* write() calls per video session
MaxFrames == 3
\* open() calls of the video output in one run
MaxOpens == 2
\* files in the playlist
MaxTracks == 2
\* play() calls
MaxPlays == 3

\* template parameter Capacity, a power of two
Capacity == 2 ^ CapLog
\* static constexpr size_t mask_ = Capacity - 1
mask_ == Capacity - 1
\* size_t is an unsigned machine word; the model keeps one bit more than the
\* capacity so that the indices wrap around during a run
SizeWrap == 2 * Capacity
\* request sizes offered to write() and read(): none, small, all but one, all
Sizes == {0, 1, 2, Capacity - 1, Capacity}

\* content of destination memory that has not been written
Garbage == -1

VARIABLES
    \* LockFreeRingBuffer
    head_,      \* std::atomic<size_t> head_, written by the producer
    tail_,      \* std::atomic<size_t> tail_, written by the consumer
    buffer_,    \* uint8_t buffer_[Capacity]
    w,          \* the thread executing LockFreeRingBuffer::write
    r,          \* the thread executing LockFreeRingBuffer::read
    \* history of the byte stream since construction or the last clear()
    written,    \* bytes accepted by write, in order
    readOut,    \* bytes returned by read, in order
    clears,     \* number of clear() calls so far
    \* RtAudioOutput / RtAudioInput
    isStopping_,  \* std::atomic<bool> isStopping_
    mutex_,       \* std::mutex mutex_: the thread that holds it, or "none"
    stream,       \* the RtAudio stream: isStreamOpen(), isStreamRunning()
    channelCount_,\* uint32_t channelCount_
    ctl,          \* the thread calling open(), start() and stop()
    cb,           \* the RtAudio callback thread
    opens,        \* number of streams opened so far
    rtSampleRate_,\* uint32_t sampleRate_ of RtAudioOutput
    devRates,     \* the sample rates the selected output device supports
    accepted,     \* what each successful openStream() of the output accepted, in order
    \* RtAudioInput
    isActive_,    \* bool isActive_
    rtAudio_,     \* std::shared_ptr<RtAudio> rtAudio_ is set
    readPromise_, \* ReadPromise::Pointer readPromise_: a promise id, 0 = null
    promises,     \* every promise passed to read(), by id
    app,          \* the thread calling read()
    \* FFmpegDrmVideoOutput (isActive_ and mutex_ are shared with the above)
    displayedFrame_,         \* AVFrame *displayedFrame_: a reference or NoFrame
    previousDisplayedFrame_, \* AVFrame *previousDisplayedFrame_
    currentFbId_,            \* uint32_t currentFbId_
    previousFbId_,           \* uint32_t previousFbId_
    currentHandle_,          \* uint32_t currentHandle_
    previousHandle_,         \* uint32_t previousHandle_
    drmInitialized_,         \* bool drmInitialized_
    codecCtx_,               \* AVCodecContext *codecCtx_ is set
    drmFd_,                  \* int drmFd_
    frameCount_,             \* uint64_t frameCount_
    g_signalReceived,        \* static std::atomic<bool> g_signalReceived
    vw,                      \* the thread inside open() or write() / displayFrame()
    kfbs,                    \* framebuffer ids the kernel holds for drmFd_
    kgem,                    \* GEM handles open on drmFd_, with their buffer
    refs,                    \* AVFrame references alive in the process
    \* history of the zero-copy submissions
    subs,                    \* successful submissions so far
    owners,                  \* which submission a live resource belongs to
    released,                \* every release of a submission's resource
    leaked,                  \* resources no pointer of the component names any more
    vres,                    \* the call of the video output that returned last; none while one runs
    usingHwAccel_,           \* bool usingHwAccel_
    doubles,                 \* releases of something that was already released
    sig,                     \* emergencyCleanup: times it has run, log statements it has executed
    swDumbHandle_,           \* the dumb buffer of the software path is allocated (handle, map, fb)
    swsCtx_,                 \* the swscale context is non-null
    cursorInitialized_,      \* static bool cursorInitialized_
    cursorVisible_,          \* static bool cursorVisible_
    cursorDrmFd_,            \* static int cursorDrmFd_
    cursorBufferHandle_,     \* static uint32_t cursorBufferHandle_
    kcursor,                 \* the cursor of the CRTC: shown, position, glyph drawings of this session
    cursorEnv,               \* how the DRM device answers the cursor calls of this run
    \* KmssinkVideoOutput (isActive_, mutex_ and frameCount_ are shared with the above)
    pipeline_,               \* GstElement *pipeline_ is set
    appsrc_,                 \* GstElement *appsrc_ is set
    gstInitialized,          \* gst_is_initialized()
    pipelines,               \* GstPipeline objects alive in the process
    pushed,                  \* buffers that gst_app_src_push_buffer accepted
    impl,                    \* which video output the object is
    \* AudioPlayer
    playlist_,               \* QStringList playlist_: its size, the files are 0 .. size - 1
    playlistIndex_,          \* int playlistIndex_
    repeatMode_,             \* int repeatMode_
    playing_,                \* std::atomic<bool> playing_
    paused_,                 \* std::atomic<bool> paused_
    stopRequested_,          \* std::atomic<bool> stopRequested_
    currentFile_,            \* QString currentFile_: the file's place in the playlist, -1 = empty
    decodeThread_,           \* QThread *decodeThread_ is set
    sampleRate_,             \* int sampleRate_
    bitDepth_,               \* int bitDepth_
    nativeOffload_,          \* bool nativeOffload_
    worker,                  \* the decode thread: its position in decodeLoop and its locals
    pm,                      \* the main thread: its position in play() / stop()
    pq,                      \* the main thread's queued invocations
    emitted,                 \* trackFinished signals emitted so far
    plays,                   \* play() calls so far
    crashed,                 \* the process was aborted
    track,                   \* the file being decoded: sample rate, bits per raw sample
    dac                      \* the ALSA device: the rates and formats it supports

ringVars == <<head_, tail_, buffer_, w, r, written, readOut, clears>>
audioVars == <<isStopping_, mutex_, stream, channelCount_, ctl, cb, opens,
               rtSampleRate_, devRates, accepted>>
inputVars == <<isActive_, rtAudio_, readPromise_, promises, app>>
slotVars == <<displayedFrame_, previousDisplayedFrame_, currentFbId_, previousFbId_,
              currentHandle_, previousHandle_>>
videoVars == <<displayedFrame_, previousDisplayedFrame_, currentFbId_, previousFbId_,
               currentHandle_, previousHandle_, drmInitialized_, codecCtx_, drmFd_,
               frameCount_, g_signalReceived, vw, kfbs, kgem, refs,
               subs, owners, released, leaked, vres,
               usingHwAccel_, doubles, sig, swDumbHandle_, swsCtx_, 
          cursorInitialized_, cursorVisible_, cursorDrmFd_, cursorBufferHandle_, kcursor, cursorEnv,
          pipeline_, appsrc_, gstInitialized, pipelines, pushed, impl>>
cursorVars == <<cursorInitialized_, cursorVisible_, cursorDrmFd_, cursorBufferHandle_,
                kcursor, cursorEnv>>
playerVars == <<playlist_, playlistIndex_, repeatMode_, playing_, paused_, stopRequested_,
                currentFile_, decodeThread_, sampleRate_, bitDepth_, nativeOffload_,
                worker, pm, pq, emitted, plays, crashed, track, dac>>
vars == <<head_, tail_, buffer_, w, r, written, readOut, clears,
          isStopping_, mutex_, stream, channelCount_, ctl, cb, opens,
          rtSampleRate_, devRates, accepted,
          isActive_, rtAudio_, readPromise_, promises, app,
          displayedFrame_, previousDisplayedFrame_, currentFbId_, previousFbId_,
          currentHandle_, previousHandle_, drmInitialized_, codecCtx_, drmFd_,
          frameCount_, g_signalReceived, vw, kfbs, kgem, refs,
          subs, owners, released, leaked, vres,
          usingHwAccel_, doubles, sig, swDumbHandle_, swsCtx_, 
          cursorInitialized_, cursorVisible_, cursorDrmFd_, cursorBufferHandle_, kcursor, cursorEnv,
          pipeline_, appsrc_, gstInitialized, pipelines, pushed, impl,
          playlist_, playlistIndex_, repeatMode_, playing_, paused_, stopRequested_,
          currentFile_, decodeThread_, sampleRate_, bitDepth_, nativeOffload_, worker,
          pm, pq, emitted, plays, crashed, track, dac>>

(***************************************************************************)
(* Unsigned arithmetic.                                                    *)
(***************************************************************************)
\* arithmetic on size_t wraps
SizeT(x) == x % SizeWrap
\* x & mask_, mask_ = 2^k - 1
AndMask(x) == x % (mask_ + 1)
Min(a, b) == IF a < b THEN a ELSE b
Dist(a, b) == IF a < b THEN b - a ELSE a - b
\* snd_pcm_hw_params_set_rate_near: the supported rate nearest to val
SetRateNear(rates, val) ==
    CHOOSE x \in rates : \A y \in rates :
        Dist(x, val) < Dist(y, val) \/ (Dist(x, val) = Dist(y, val) /\ x <= y)

\* available() counting one byte too many
AvailableInclusive(head, tail) == AndMask(SizeT(SizeT(head - tail) + 1))
\* available(): (head - tail) & mask_
Available(head, tail) == AndMask(SizeT(head - tail))
\* space() that does not reserve the empty slot
SpaceNoReserve(head, tail) == AndMask(SizeT(SizeT(tail - head) + Capacity))
\* space(): (tail - head - 1 + Capacity) & mask_
Space(head, tail) == AndMask(SizeT(SizeT(SizeT(tail - head) - 1) + Capacity))
\* capacity(): Capacity - 1
capacity == Capacity - 1

\* the unread bytes of the buffer, oldest first
RECURSIVE Region(_, _, _)
Region(buf, from, n) ==
    IF n = 0 THEN <<>>
    ELSE <<buf[AndMask(from)]>> \o Region(buf, from + 1, n - 1)
Contents == Region(buffer_, tail_, Available(head_, tail_))

Take(s, n) == SubSeq(s, 1, n)
IsPrefix(s, t) == Len(s) <= Len(t) /\ s = SubSeq(t, 1, Len(s))
Fill(n, v) == [i \in 1..n |-> v]

(***************************************************************************)
(* Process records.                                                        *)
(***************************************************************************)
WIdle == [pc |-> "idle", data |-> <<>>, null |-> FALSE, head |-> 0, tail |-> 0,
          toWrite |-> 0, firstPart |-> 0, i |-> 0, ret |-> 0]
RIdle == [pc |-> "idle", size |-> 0, null |-> FALSE, head |-> 0, tail |-> 0,
          toRead |-> 0, firstPart |-> 0, i |-> 0, ret |-> 0, dst |-> <<>>]

CbIdle == [pc |-> "idle", size |-> 0, ret |-> 0, out |-> <<>>]

\* the payload of the next request: the n bytes that follow the accepted ones
Payload(n) == [i \in 1..n |-> Len(written) + i]

(***************************************************************************)
(* LockFreeRingBuffer::write                                               *)
(***************************************************************************)
\* entry: if (!data || size == 0) return 0;
WriteEnter(data, null) ==
    /\ w.pc = "idle"
    /\ w' = [WIdle EXCEPT !.data = data, !.null = null,
                          !.pc = IF null \/ Len(data) = 0 THEN "done" ELSE "loadHead"]

\* const size_t head = head_.load(relaxed);
WriteLoadHead ==
    /\ w.pc = "loadHead"
    /\ w' = [w EXCEPT !.head = head_, !.pc = "loadTail"]
    /\ UNCHANGED <<head_, tail_, buffer_, r, written, readOut, clears>>
    /\ UNCHANGED audioVars
    /\ UNCHANGED inputVars
    /\ UNCHANGED videoVars
    /\ UNCHANGED playerVars

\* const size_t tail = tail_.load(acquire); available; toWrite; firstPart
WriteLoadTail ==
    /\ w.pc = "loadTail"
    /\ LET toWrite == Min(Len(w.data), Space(w.head, tail_))
           headIdx == AndMask(w.head)
       IN w' = [w EXCEPT !.tail = tail_, !.toWrite = toWrite,
                         !.firstPart = Min(toWrite, Capacity - headIdx),
                         !.i = 0,
                         !.pc = IF toWrite = 0 THEN "done" ELSE "copy1"]
    /\ UNCHANGED <<head_, tail_, buffer_, r, written, readOut, clears>>
    /\ UNCHANGED audioVars
    /\ UNCHANGED inputVars
    /\ UNCHANGED videoVars
    /\ UNCHANGED playerVars

\* std::memcpy(buffer_ + headIdx, src, firstPart), one byte per step
WriteCopyFirst ==
    /\ w.pc = "copy1"
    /\ IF w.i < w.firstPart
       THEN /\ buffer_' = [buffer_ EXCEPT ![AndMask(w.head) + w.i] = w.data[w.i + 1]]
            /\ w' = [w EXCEPT !.i = w.i + 1]
       ELSE /\ buffer_' = buffer_
            /\ w' = [w EXCEPT !.i = 0,
                              !.pc = IF w.toWrite > w.firstPart THEN "copy2" ELSE "store"]
    /\ UNCHANGED <<head_, tail_, r, written, readOut, clears>>
    /\ UNCHANGED audioVars
    /\ UNCHANGED inputVars
    /\ UNCHANGED videoVars
    /\ UNCHANGED playerVars

\* std::memcpy(buffer_, src + firstPart, toWrite - firstPart), one byte per step
WriteCopyWrapped ==
    /\ w.pc = "copy2"
    /\ IF w.i < w.toWrite - w.firstPart
       THEN /\ buffer_' = [buffer_ EXCEPT ![w.i] = w.data[w.firstPart + w.i + 1]]
            /\ w' = [w EXCEPT !.i = w.i + 1]
       ELSE /\ buffer_' = buffer_
            /\ w' = [w EXCEPT !.i = 0, !.pc = "store"]
    /\ UNCHANGED <<head_, tail_, r, written, readOut, clears>>
    /\ UNCHANGED audioVars
    /\ UNCHANGED inputVars
    /\ UNCHANGED videoVars
    /\ UNCHANGED playerVars

\* write that advances head by the requested size
WriteStoreHeadRequested ==
    /\ w.pc = "store"
    /\ head_' = SizeT(w.head + Len(w.data))
    /\ w' = [w EXCEPT !.ret = Len(w.data), !.pc = "done"]
    /\ written' = written \o Take(w.data, w.toWrite)
    /\ UNCHANGED <<tail_, buffer_, r, readOut, clears>>
    /\ UNCHANGED audioVars
    /\ UNCHANGED inputVars
    /\ UNCHANGED videoVars
    /\ UNCHANGED playerVars

\* head_.store(head + toWrite, release); return toWrite;
WriteStoreHead ==
    /\ w.pc = "store"
    /\ head_' = SizeT(w.head + w.toWrite)
    /\ w' = [w EXCEPT !.ret = w.toWrite, !.pc = "done"]
    /\ written' = written \o Take(w.data, w.toWrite)
    /\ UNCHANGED <<tail_, buffer_, r, readOut, clears>>
    /\ UNCHANGED audioVars
    /\ UNCHANGED inputVars
    /\ UNCHANGED videoVars
    /\ UNCHANGED playerVars

(***************************************************************************)
(* LockFreeRingBuffer::read                                                *)
(***************************************************************************)
\* entry: if (!data || size == 0) return 0;
ReadEnter(size, null) ==
    /\ r.pc = "idle"
    /\ r' = [RIdle EXCEPT !.size = size, !.null = null,
                          !.dst = Fill(size, Garbage),
                          !.pc = IF null \/ size = 0 THEN "done" ELSE "loadTail"]

\* const size_t tail = tail_.load(relaxed);
ReadLoadTail ==
    /\ r.pc = "loadTail"
    /\ r' = [r EXCEPT !.tail = tail_, !.pc = "loadHead"]
    /\ UNCHANGED <<head_, tail_, buffer_, w, written, readOut, clears>>
    /\ UNCHANGED audioVars
    /\ UNCHANGED inputVars
    /\ UNCHANGED videoVars
    /\ UNCHANGED playerVars

\* const size_t head = head_.load(acquire); available; toRead; firstPart
ReadLoadHead ==
    /\ r.pc = "loadHead"
    /\ LET toRead == Min(r.size, Available(head_, r.tail))
           tailIdx == AndMask(r.tail)
       IN r' = [r EXCEPT !.head = head_, !.toRead = toRead,
                         !.firstPart = Min(toRead, Capacity - tailIdx),
                         !.i = 0,
                         !.pc = IF toRead = 0 THEN "done" ELSE "copy1"]
    /\ UNCHANGED <<head_, tail_, buffer_, w, written, readOut, clears>>
    /\ UNCHANGED audioVars
    /\ UNCHANGED inputVars
    /\ UNCHANGED videoVars
    /\ UNCHANGED playerVars

\* std::memcpy(dst, buffer_ + tailIdx, firstPart), one byte per step
ReadCopyFirst ==
    /\ r.pc = "copy1"
    /\ IF r.i < r.firstPart
       THEN r' = [r EXCEPT !.dst[r.i + 1] = buffer_[AndMask(r.tail) + r.i],
                           !.i = r.i + 1]
       ELSE r' = [r EXCEPT !.i = 0,
                           !.pc = IF r.toRead > r.firstPart THEN "copy2" ELSE "store"]
    /\ UNCHANGED <<head_, tail_, buffer_, w, written, readOut, clears>>
    /\ UNCHANGED audioVars
    /\ UNCHANGED inputVars
    /\ UNCHANGED videoVars
    /\ UNCHANGED playerVars

\* std::memcpy(dst + firstPart, buffer_, toRead - firstPart), one byte per step
ReadCopyWrapped ==
    /\ r.pc = "copy2"
    /\ IF r.i < r.toRead - r.firstPart
       THEN r' = [r EXCEPT !.dst[r.firstPart + r.i + 1] = buffer_[r.i],
                           !.i = r.i + 1]
       ELSE r' = [r EXCEPT !.i = 0, !.pc = "store"]
    /\ UNCHANGED <<head_, tail_, buffer_, w, written, readOut, clears>>
    /\ UNCHANGED audioVars
    /\ UNCHANGED inputVars
    /\ UNCHANGED videoVars
    /\ UNCHANGED playerVars

\* read that rewinds both indices once the buffer is drained
ReadStoreTailRewind ==
    /\ r.pc = "store"
    /\ IF r.toRead = Available(r.head, r.tail)
       THEN tail_' = 0 /\ head_' = 0
       ELSE tail_' = SizeT(r.tail + r.toRead) /\ head_' = head_
    /\ r' = [r EXCEPT !.ret = r.toRead, !.pc = "done"]
    /\ readOut' = readOut \o Take(r.dst, r.toRead)
    /\ UNCHANGED <<buffer_, w, written, clears>>
    /\ UNCHANGED audioVars
    /\ UNCHANGED inputVars
    /\ UNCHANGED videoVars
    /\ UNCHANGED playerVars

\* tail_.store(tail + toRead, release); return toRead;
ReadStoreTail ==
    /\ r.pc = "store"
    /\ tail_' = SizeT(r.tail + r.toRead)
    /\ r' = [r EXCEPT !.ret = r.toRead, !.pc = "done"]
    /\ readOut' = readOut \o Take(r.dst, r.toRead)
    /\ head_' = head_
    /\ UNCHANGED <<buffer_, w, written, clears>>
    /\ UNCHANGED audioVars
    /\ UNCHANGED inputVars
    /\ UNCHANGED videoVars
    /\ UNCHANGED playerVars

(***************************************************************************)
(* LockFreeRingBuffer::clear                                               *)
(***************************************************************************)
\* head_.store(0, relaxed); tail_.store(0, relaxed);
ClearIndices ==
    /\ head_' = 0
    /\ tail_' = 0

(***************************************************************************)
(* The ring buffer driven directly by one producer and one consumer.       *)
(***************************************************************************)
\* a null AVFrame pointer
NoFrame == [sub |-> 0, buf |-> 0]

\* the sample rate of the media audio channel
DefaultRate == 48000

\* FFmpegDrmVideoOutput::FFmpegDrmVideoOutput: the member initializers
\* the decode thread when there is none
WorkerNone == [pc |-> "none", outSampleRate |-> 0, nativeOffload |-> FALSE,
               outBytesPerSample |-> 0]
PmIdle == [pc |-> "idle", then |-> "none", file |-> -1]
\* the file and the device of a run in which the negotiation is not looked at
DefaultTrack == [rate |-> 48000, bits |-> 16]
DefaultDac == [rates |-> {44100, 48000}, formats |-> {"S16_LE"}]

\* AudioPlayer::AudioPlayer
PlayerConstructed ==
    /\ playlist_ = 0
    /\ playlistIndex_ = -1
    /\ repeatMode_ = 0
    /\ playing_ = FALSE
    /\ paused_ = FALSE
    /\ stopRequested_ = FALSE
    /\ currentFile_ = -1
    /\ decodeThread_ = FALSE
    /\ sampleRate_ = 0
    /\ bitDepth_ = 16
    /\ nativeOffload_ = FALSE
    /\ worker = WorkerNone
    /\ pm = PmIdle
    /\ pq = <<>>
    /\ emitted = 0
    /\ plays = 0
    /\ crashed = FALSE
    /\ track = DefaultTrack
    /\ dac = DefaultDac

\* no cursor on the CRTC
KcursorOff == [shown |-> FALSE, x |-> 0, y |-> 0, drawn |-> 0]

VideoConstructed ==
    /\ displayedFrame_ = NoFrame
    /\ previousDisplayedFrame_ = NoFrame
    /\ currentFbId_ = 0
    /\ previousFbId_ = 0
    /\ currentHandle_ = 0
    /\ previousHandle_ = 0
    /\ drmInitialized_ = FALSE
    /\ codecCtx_ = FALSE
    /\ drmFd_ = -1
    /\ frameCount_ = 0
    /\ g_signalReceived = FALSE
    /\ vw = [pc |-> "idle", buf |-> 0, handle |-> 0, fbId |-> 0, prime |-> FALSE]
    /\ kfbs = {}
    /\ kgem = {}
    /\ refs = {}
    /\ subs = 0
    /\ owners = {}
    /\ released = {}
    /\ leaked = [files |-> 0, ctxs |-> 0, fbs |-> {}, handles |-> 0]
    /\ vres = [op |-> "none", ok |-> FALSE]
    /\ usingHwAccel_ = FALSE
    /\ doubles = {}
    /\ sig = [runs |-> 0, logs |-> 0]
    /\ swDumbHandle_ = FALSE
    /\ swsCtx_ = FALSE
    /\ cursorInitialized_ = FALSE
    /\ cursorVisible_ = FALSE
    /\ cursorDrmFd_ = -1
    /\ cursorBufferHandle_ = 0
    /\ kcursor = KcursorOff
    /\ pipeline_ = FALSE
    /\ appsrc_ = FALSE
    /\ gstInitialized = FALSE
    /\ pipelines = 0
    /\ pushed = 0

RingInit ==
    /\ head_ = 0
    /\ tail_ = 0
    /\ buffer_ = [i \in 0..(Capacity - 1) |-> 0]
    /\ w = WIdle
    /\ r = RIdle
    /\ written = <<>>
    /\ readOut = <<>>
    /\ clears = 0
    /\ isStopping_ = FALSE
    /\ mutex_ = "none"
    /\ stream = [open |-> FALSE, running |-> FALSE]
    /\ channelCount_ = 2
    /\ rtSampleRate_ = DefaultRate
    /\ devRates = {DefaultRate}
    /\ accepted = <<>>
    /\ ctl = [pc |-> "idle"]
    /\ cb = CbIdle
    /\ opens = 0
    /\ isActive_ = FALSE
    /\ rtAudio_ = FALSE
    /\ readPromise_ = 0
    /\ promises = <<>>
    /\ app = [pc |-> "idle", p |-> 0]
    /\ VideoConstructed
    /\ cursorEnv = "ok"
    /\ PlayerConstructed
    /\ impl = "ffmpeg"

\* the producer calls write(data, size)
RingWriteCall ==
    /\ \E n \in Sizes, null \in BOOLEAN :
          /\ Len(written) < MaxProduced
          /\ WriteEnter(Payload(n), null)
    /\ UNCHANGED <<head_, tail_, buffer_, r, written, readOut, clears>>
    /\ UNCHANGED audioVars
    /\ UNCHANGED inputVars
    /\ UNCHANGED videoVars
    /\ UNCHANGED playerVars

\* write has returned to the producer
RingWriteReturn ==
    /\ w.pc = "done"
    /\ w' = [w EXCEPT !.pc = "idle"]
    /\ UNCHANGED <<head_, tail_, buffer_, r, written, readOut, clears>>
    /\ UNCHANGED audioVars
    /\ UNCHANGED inputVars
    /\ UNCHANGED videoVars
    /\ UNCHANGED playerVars

\* the consumer calls read(data, size)
RingReadCall ==
    /\ \E n \in Sizes, null \in BOOLEAN : ReadEnter(n, null)
    /\ UNCHANGED <<head_, tail_, buffer_, w, written, readOut, clears>>
    /\ UNCHANGED audioVars
    /\ UNCHANGED inputVars
    /\ UNCHANGED videoVars
    /\ UNCHANGED playerVars

\* read has returned to the consumer
RingReadReturn ==
    /\ r.pc = "done"
    /\ r' = [r EXCEPT !.pc = "idle"]
    /\ UNCHANGED <<head_, tail_, buffer_, w, written, readOut, clears>>
    /\ UNCHANGED audioVars
    /\ UNCHANGED inputVars
    /\ UNCHANGED videoVars
    /\ UNCHANGED playerVars

\* clear(), called while no read or write is in progress
RingClear ==
    /\ w.pc = "idle"
    /\ r.pc = "idle"
    /\ clears < MaxClears
    /\ ClearIndices
    /\ clears' = clears + 1
    /\ written' = <<>>
    /\ readOut' = <<>>
    /\ UNCHANGED <<buffer_, w, r>>
    /\ UNCHANGED audioVars
    /\ UNCHANGED inputVars
    /\ UNCHANGED videoVars
    /\ UNCHANGED playerVars

RingNext ==
    \/ RingWriteCall
    \/ WriteLoadHead
    \/ WriteLoadTail
    \/ WriteCopyFirst
    \/ WriteCopyWrapped
    \/ WriteStoreHead
    \/ RingWriteReturn
    \/ RingReadCall
    \/ ReadLoadTail
    \/ ReadLoadHead
    \/ ReadCopyFirst
    \/ ReadCopyWrapped
    \/ ReadStoreTail
    \/ RingReadReturn

SpecRing == RingInit /\ [][RingNext]_vars

RingClearNext ==
    \/ RingNext
    \/ RingClear

SpecRingClear == RingInit /\ [][RingClearNext]_vars

(***************************************************************************)
(* RtAudio, as the audio components use it.  The callback thread invokes   *)
(* the callback while the stream runs; closeStream() joins that thread.    *)
(***************************************************************************)
\* frames per callback invocation offered by the hardware
BufferFrames == {1}
\* RTAUDIO_SINT16: bits per sample
sampleSize_ == 16

\* sizes of the PCM buffers handed to the output: one byte, a full buffer
AudioSizes == {1, Capacity - 1}
\* number of PCM bytes a component accepts between two clear() calls
MaxAudio == MaxProduced \div 2

\* a library call reports an error or succeeds
Outcomes == {"ok", "error"}

\* the sample rates the audio channels are configured with
OutRates == {16000, 44100, 48000}
\* the rate sets of the output devices considered
OutDevices == {{48000}, {44100, 48000}, {16000, 48000}, {44100}}
\* RtAudio::openStream(&parameters, nullptr, RTAUDIO_SINT16, sampleRate, ...):
\* the stream takes the supported rate nearest to the one asked for, and
\* presents 16-bit samples to the caller whatever the device format is
OpenStream(sampleRate, rates) ==
    [rate |-> SetRateNear(rates, sampleRate), format |-> "SINT16"]

\* take std::mutex mutex_ (blocks while another thread holds it)
Lock(t) ==
    /\ mutex_ = "none"
    /\ mutex_' = t

(***************************************************************************)
(* RtAudioOutput::open                                                     *)
(***************************************************************************)
\* std::lock_guard lock(mutex_);
OutOpenLock ==
    /\ ctl.pc = "idle"
    /\ Lock("ctl")
    /\ ctl' = [pc |-> "open"]
    /\ UNCHANGED <<isStopping_, stream, channelCount_, rtSampleRate_, devRates, accepted, cb, opens>>
    /\ UNCHANGED ringVars
    /\ UNCHANGED inputVars
    /\ UNCHANGED videoVars
    /\ UNCHANGED playerVars

\* an open() that takes over the rate the stream accepted
OutOpenBodyStoreRate ==
    /\ ctl.pc = "open"
    /\ \E devices \in BOOLEAN, res \in Outcomes :
          IF devices /\ res = "ok" /\ ~stream.open
          THEN /\ stream' = [open |-> TRUE, running |-> FALSE]
               /\ opens' = opens + 1
               /\ accepted' = Append(accepted, OpenStream(rtSampleRate_, devRates))
               /\ rtSampleRate_' = SetRateNear(devRates, rtSampleRate_)
          ELSE UNCHANGED <<stream, opens, accepted, rtSampleRate_>>
    /\ mutex_' = "none"
    /\ ctl' = [pc |-> "idle"]
    /\ UNCHANGED <<isStopping_, channelCount_, devRates, cb>>
    /\ UNCHANGED ringVars
    /\ UNCHANGED inputVars
    /\ UNCHANGED videoVars
    /\ UNCHANGED playerVars

\* getDeviceCount() <= 0, openStream(), audioBuffer_.open(); unlock
OutOpenBody ==
    /\ ctl.pc = "open"
    /\ \E devices \in BOOLEAN, res \in Outcomes :
          IF devices /\ res = "ok" /\ ~stream.open
          THEN /\ stream' = [open |-> TRUE, running |-> FALSE]
               /\ opens' = opens + 1
               /\ accepted' = Append(accepted, OpenStream(rtSampleRate_, devRates))
          ELSE UNCHANGED <<stream, opens, accepted>>
    /\ mutex_' = "none"
    /\ ctl' = [pc |-> "idle"]
    /\ UNCHANGED <<isStopping_, channelCount_, rtSampleRate_, devRates, cb>>
    /\ UNCHANGED ringVars
    /\ UNCHANGED inputVars
    /\ UNCHANGED videoVars
    /\ UNCHANGED playerVars

(***************************************************************************)
(* RtAudioOutput::start                                                    *)
(***************************************************************************)
\* std::lock_guard lock(mutex_);
OutStartLock ==
    /\ ctl.pc = "idle"
    /\ Lock("ctl")
    /\ ctl' = [pc |-> "start"]
    /\ UNCHANGED <<isStopping_, stream, channelCount_, rtSampleRate_, devRates, accepted, cb, opens>>
    /\ UNCHANGED ringVars
    /\ UNCHANGED inputVars
    /\ UNCHANGED videoVars
    /\ UNCHANGED playerVars

\* if (isStreamOpen() && !isStreamRunning()) startStream(); unlock
OutStartBody ==
    /\ ctl.pc = "start"
    /\ \E res \in Outcomes :
          IF stream.open /\ ~stream.running /\ res = "ok"
          THEN stream' = [stream EXCEPT !.running = TRUE]
          ELSE stream' = stream
    /\ mutex_' = "none"
    /\ ctl' = [pc |-> "idle"]
    /\ UNCHANGED <<isStopping_, channelCount_, rtSampleRate_, devRates, accepted, cb, opens>>
    /\ UNCHANGED ringVars
    /\ UNCHANGED inputVars
    /\ UNCHANGED videoVars
    /\ UNCHANGED playerVars

(***************************************************************************)
(* RtAudioOutput::stop                                                     *)
(***************************************************************************)
\* isStopping_.store(true, release);
OutStopFlag ==
    /\ ctl.pc = "idle"
    /\ clears < MaxClears
    /\ isStopping_' = TRUE
    /\ ctl' = [pc |-> "stopLock"]
    /\ UNCHANGED <<mutex_, stream, channelCount_, rtSampleRate_, devRates, accepted, cb, opens>>
    /\ UNCHANGED ringVars
    /\ UNCHANGED inputVars
    /\ UNCHANGED videoVars
    /\ UNCHANGED playerVars

\* std::lock_guard lock(mutex_);
OutStopLock ==
    /\ ctl.pc = "stopLock"
    /\ Lock("ctl")
    /\ ctl' = [pc |-> "suspend"]
    /\ UNCHANGED <<isStopping_, stream, channelCount_, rtSampleRate_, devRates, accepted, cb, opens>>
    /\ UNCHANGED ringVars
    /\ UNCHANGED inputVars
    /\ UNCHANGED videoVars
    /\ UNCHANGED playerVars

\* doSuspend(): if (isStreamOpen() && isStreamRunning()) stopStream();
OutStopSuspend ==
    /\ ctl.pc = "suspend"
    /\ \E res \in Outcomes :
          IF stream.open /\ stream.running /\ res = "ok"
          THEN stream' = [stream EXCEPT !.running = FALSE]
          ELSE stream' = stream
    /\ ctl' = [pc |-> "close"]
    /\ UNCHANGED <<isStopping_, mutex_, channelCount_, rtSampleRate_, devRates, accepted, cb, opens>>
    /\ UNCHANGED ringVars
    /\ UNCHANGED inputVars
    /\ UNCHANGED videoVars
    /\ UNCHANGED playerVars

\* if (dac_ && isStreamOpen()) closeStream();  -- joins the callback thread
OutStopClose ==
    /\ ctl.pc = "close"
    /\ \E res \in Outcomes :
          IF stream.open /\ res = "ok"
          THEN /\ cb.pc = "idle"
               /\ stream' = [open |-> FALSE, running |-> FALSE]
          ELSE stream' = stream
    /\ ctl' = [pc |-> "clearHead"]
    /\ UNCHANGED <<isStopping_, mutex_, channelCount_, rtSampleRate_, devRates, accepted, cb, opens>>
    /\ UNCHANGED ringVars
    /\ UNCHANGED inputVars
    /\ UNCHANGED videoVars
    /\ UNCHANGED playerVars

\* audioBuffer_.close(): head_.store(0, relaxed);
OutStopClearHead ==
    /\ ctl.pc = "clearHead"
    /\ head_' = 0
    /\ ctl' = [pc |-> "clearTail"]
    /\ UNCHANGED <<isStopping_, mutex_, stream, channelCount_, rtSampleRate_, devRates, accepted, cb, opens>>
    /\ UNCHANGED <<tail_, buffer_, w, r, written, readOut, clears>>
    /\ UNCHANGED inputVars
    /\ UNCHANGED videoVars
    /\ UNCHANGED playerVars

\* audioBuffer_.close(): tail_.store(0, relaxed); unlock
OutStopClearTail ==
    /\ ctl.pc = "clearTail"
    /\ tail_' = 0
    /\ clears' = clears + 1
    /\ written' = <<>>
    /\ readOut' = <<>>
    /\ mutex_' = "none"
    /\ ctl' = [pc |-> "idle"]
    /\ UNCHANGED <<isStopping_, stream, channelCount_, rtSampleRate_, devRates, accepted, cb, opens>>
    /\ UNCHANGED <<head_, buffer_, w, r>>
    /\ UNCHANGED inputVars
    /\ UNCHANGED videoVars
    /\ UNCHANGED playerVars

(***************************************************************************)
(* RtAudioOutput::write                                                    *)
(***************************************************************************)
\* if (isStopping_.load(acquire)) return; audioBuffer_.write(cdata, size);
OutWrite ==
    /\ \E n \in AudioSizes :
          /\ Len(written) < MaxAudio
          /\ IF isStopping_
             THEN /\ w.pc = "idle"
                  /\ w' = [WIdle EXCEPT !.data = Payload(n), !.pc = "done"]
             ELSE WriteEnter(Payload(n), FALSE)
    /\ UNCHANGED <<head_, tail_, buffer_, r, written, readOut, clears>>
    /\ UNCHANGED audioVars
    /\ UNCHANGED inputVars
    /\ UNCHANGED videoVars
    /\ UNCHANGED playerVars

\* write() has returned
OutWriteReturn ==
    /\ w.pc = "done"
    /\ w' = [w EXCEPT !.pc = "idle"]
    /\ UNCHANGED <<head_, tail_, buffer_, r, written, readOut, clears>>
    /\ UNCHANGED audioVars
    /\ UNCHANGED inputVars
    /\ UNCHANGED videoVars
    /\ UNCHANGED playerVars

(***************************************************************************)
(* RtAudioOutput::audioBufferReadHandler                                   *)
(***************************************************************************)
\* the callback thread invokes the callback of the running stream
OutCbInvoke ==
    /\ cb.pc = "idle"
    /\ stream.running
    /\ \E nBufferFrames \in BufferFrames :
          cb' = [CbIdle EXCEPT !.pc = "check", !.size = nBufferFrames]
    /\ UNCHANGED <<isStopping_, mutex_, stream, channelCount_, rtSampleRate_, devRates, accepted, ctl, opens>>
    /\ UNCHANGED ringVars
    /\ UNCHANGED inputVars
    /\ UNCHANGED videoVars
    /\ UNCHANGED playerVars

\* if (!self || isStopping_.load(acquire)) { memset(out, 0, n * 2 * 2); return 1; }
OutCbCheck ==
    /\ cb.pc = "check"
    /\ IF isStopping_
       THEN cb' = [cb EXCEPT !.pc = "ret", !.ret = 1,
                             !.out = Fill(cb.size * 2 * 2, 0)]
       ELSE cb' = [cb EXCEPT !.pc = "lock"]
    /\ UNCHANGED <<isStopping_, mutex_, stream, channelCount_, rtSampleRate_, devRates, accepted, ctl, opens>>
    /\ UNCHANGED ringVars
    /\ UNCHANGED inputVars
    /\ UNCHANGED videoVars
    /\ UNCHANGED playerVars

\* std::lock_guard lock(self->mutex_); bufferSize; audioBuffer_.read(out, bufferSize)
OutCbLock ==
    /\ cb.pc = "lock"
    /\ Lock("cb")
    /\ LET bufferSize == cb.size * (sampleSize_ \div 8) * channelCount_
       IN /\ ReadEnter(bufferSize, FALSE)
          /\ cb' = [cb EXCEPT !.pc = "read", !.size = bufferSize]
    /\ UNCHANGED <<isStopping_, stream, channelCount_, rtSampleRate_, devRates, accepted, ctl, opens>>
    /\ UNCHANGED <<head_, tail_, buffer_, w, written, readOut, clears>>
    /\ UNCHANGED inputVars
    /\ UNCHANGED videoVars
    /\ UNCHANGED playerVars

\* callback that leaves the rest of the output buffer as it is
OutCbFillNoSilence ==
    /\ cb.pc = "read"
    /\ r.pc = "done"
    /\ cb' = [cb EXCEPT !.pc = "ret", !.ret = 0, !.out = r.dst]
    /\ r' = [r EXCEPT !.pc = "idle"]
    /\ mutex_' = "none"
    /\ UNCHANGED <<isStopping_, stream, channelCount_, rtSampleRate_, devRates, accepted, ctl, opens>>
    /\ UNCHANGED <<head_, tail_, buffer_, w, written, readOut, clears>>
    /\ UNCHANGED inputVars
    /\ UNCHANGED videoVars
    /\ UNCHANGED playerVars

\* if (bytesRead < bufferSize) memset(out + bytesRead, 0, bufferSize - bytesRead);
\* return 0; unlock
OutCbFill ==
    /\ cb.pc = "read"
    /\ r.pc = "done"
    /\ LET bytesRead == r.ret
       IN cb' = [cb EXCEPT !.pc = "ret", !.ret = 0,
                           !.out = IF bytesRead < cb.size
                                   THEN Take(r.dst, bytesRead) \o Fill(cb.size - bytesRead, 0)
                                   ELSE r.dst]
    /\ r' = [r EXCEPT !.pc = "idle"]
    /\ mutex_' = "none"
    /\ UNCHANGED <<isStopping_, stream, channelCount_, rtSampleRate_, devRates, accepted, ctl, opens>>
    /\ UNCHANGED <<head_, tail_, buffer_, w, written, readOut, clears>>
    /\ UNCHANGED inputVars
    /\ UNCHANGED videoVars
    /\ UNCHANGED playerVars

\* the callback has returned; a non-zero status makes RtAudio stop the stream
OutCbReturn ==
    /\ cb.pc = "ret"
    /\ cb' = [cb EXCEPT !.pc = "idle"]
    /\ stream' = IF cb.ret # 0 THEN [stream EXCEPT !.running = FALSE] ELSE stream
    /\ UNCHANGED <<isStopping_, mutex_, channelCount_, rtSampleRate_, devRates, accepted, ctl, opens>>
    /\ UNCHANGED ringVars
    /\ UNCHANGED inputVars
    /\ UNCHANGED videoVars
    /\ UNCHANGED playerVars

OutInit ==
    /\ head_ = 0
    /\ tail_ = 0
    /\ buffer_ = [i \in 0..(Capacity - 1) |-> 0]
    /\ w = WIdle
    /\ r = RIdle
    /\ written = <<>>
    /\ readOut = <<>>
    /\ clears = 0
    /\ isStopping_ = FALSE
    /\ mutex_ = "none"
    /\ stream = [open |-> FALSE, running |-> FALSE]
    /\ channelCount_ \in {1, 2}
    /\ rtSampleRate_ = DefaultRate
    /\ devRates = {DefaultRate}
    /\ accepted = <<>>
    /\ ctl = [pc |-> "idle"]
    /\ cb = CbIdle
    /\ opens = 0
    /\ isActive_ = FALSE
    /\ rtAudio_ = FALSE
    /\ readPromise_ = 0
    /\ promises = <<>>
    /\ app = [pc |-> "idle", p |-> 0]
    /\ VideoConstructed
    /\ cursorEnv = "ok"
    /\ PlayerConstructed
    /\ impl = "ffmpeg"

OutNext ==
    \/ OutOpenLock
    \/ OutOpenBody
    \/ OutStartLock
    \/ OutStartBody
    \/ OutStopFlag
    \/ OutStopLock
    \/ OutStopSuspend
    \/ OutStopClose
    \/ OutStopClearHead
    \/ OutStopClearTail
    \/ OutWrite
    \/ WriteLoadHead
    \/ WriteLoadTail
    \/ WriteCopyFirst
    \/ WriteCopyWrapped
    \/ WriteStoreHead
    \/ OutWriteReturn
    \/ OutCbInvoke
    \/ OutCbCheck
    \/ OutCbLock
    \/ ReadLoadTail
    \/ ReadLoadHead
    \/ ReadCopyFirst
    \/ ReadCopyWrapped
    \/ ReadStoreTail
    \/ OutCbFill
    \/ OutCbReturn

SpecOut == OutInit /\ [][OutNext]_vars

\* the control thread alone (open, start, stop, with the callback thread of
\* a running stream), for every configured rate and every device
OutOpenInit ==
    /\ head_ = 0
    /\ tail_ = 0
    /\ buffer_ = [i \in 0..(Capacity - 1) |-> 0]
    /\ w = WIdle
    /\ r = RIdle
    /\ written = <<>>
    /\ readOut = <<>>
    /\ clears = 0
    /\ isStopping_ = FALSE
    /\ mutex_ = "none"
    /\ stream = [open |-> FALSE, running |-> FALSE]
    /\ channelCount_ \in {1, 2}
    /\ rtSampleRate_ \in OutRates
    /\ devRates \in OutDevices
    /\ accepted = <<>>
    /\ ctl = [pc |-> "idle"]
    /\ cb = CbIdle
    /\ opens = 0
    /\ isActive_ = FALSE
    /\ rtAudio_ = FALSE
    /\ readPromise_ = 0
    /\ promises = <<>>
    /\ app = [pc |-> "idle", p |-> 0]
    /\ VideoConstructed
    /\ cursorEnv = "ok"
    /\ PlayerConstructed
    /\ impl = "ffmpeg"

OutOpenNext ==
    \/ OutOpenLock
    \/ OutOpenBody
    \/ OutStartLock
    \/ OutStartBody
    \/ OutStopFlag
    \/ OutStopLock
    \/ OutStopSuspend
    \/ OutStopClose
    \/ OutStopClearHead
    \/ OutStopClearTail

SpecOutOpen == OutOpenInit /\ [][OutOpenNext]_vars

(***************************************************************************)
(* RtAudioInput.  The callback is the producer of buffer_; read() and the  *)
(* callback, both under mutex_, are its consumer.                          *)
(***************************************************************************)
\* static constexpr size_t cChunkSize = 2056 of a 65536 byte buffer, scaled
\* to the capacity of the model; like 2056 it does not divide the capacity,
\* so that chunk reads wrap around the end of the storage
cChunkSize == Capacity \div 2 + 1

NewPromise == [state |-> "pending", data |-> <<>>, parked |-> FALSE, settled |-> 0]
\* promise->resolve(data)
Resolve(ps, p, data) ==
    [ps EXCEPT ![p] = [@ EXCEPT !.state = "resolved", !.data = data,
                                !.settled = @ + 1]]
\* a promise released without being rejected
DropPromise(ps, p) == ps
\* promise->reject()
Reject(ps, p) ==
    [ps EXCEPT ![p] = [@ EXCEPT !.state = "rejected", !.settled = @ + 1]]

\* RtAudioInput::start: std::lock_guard lock(mutex_);
InStartLock ==
    /\ ctl.pc = "idle"
    /\ Lock("ctl")
    /\ ctl' = [pc |-> "start"]
    /\ UNCHANGED <<isStopping_, stream, channelCount_, rtSampleRate_, devRates, accepted, cb, opens>>
    /\ UNCHANGED ringVars
    /\ UNCHANGED inputVars
    /\ UNCHANGED videoVars
    /\ UNCHANGED playerVars

\* RtAudioInput::start: isActive_ check, open(), openStream(), startStream()
InStartBody ==
    /\ ctl.pc = "start"
    /\ \E created \in Outcomes, opened \in Outcomes, started \in Outcomes :
          IF isActive_
          THEN /\ ctl' = [pc |-> "idle"]
               /\ mutex_' = "none"
               /\ UNCHANGED <<rtAudio_, stream, opens>>
          ELSE IF ~rtAudio_ /\ created = "error"
          THEN /\ ctl' = [pc |-> "idle"]
               /\ mutex_' = "none"
               /\ UNCHANGED <<rtAudio_, stream, opens>>
          ELSE IF stream.open \/ opened = "error"
          THEN /\ rtAudio_' = TRUE
               /\ ctl' = [pc |-> "idle"]
               /\ mutex_' = "none"
               /\ UNCHANGED <<stream, opens>>
          ELSE IF started = "error"
          THEN /\ rtAudio_' = TRUE
               /\ stream' = [open |-> TRUE, running |-> FALSE]
               /\ opens' = opens + 1
               /\ ctl' = [pc |-> "idle"]
               /\ mutex_' = "none"
          ELSE /\ rtAudio_' = TRUE
               /\ stream' = [open |-> TRUE, running |-> TRUE]
               /\ opens' = opens + 1
               /\ ctl' = [pc |-> "activate"]
               /\ mutex_' = mutex_
    /\ UNCHANGED <<isStopping_, channelCount_, rtSampleRate_, devRates, accepted, cb>>
    /\ UNCHANGED ringVars
    /\ UNCHANGED <<isActive_, readPromise_, promises, app>>
    /\ UNCHANGED videoVars
    /\ UNCHANGED playerVars

\* RtAudioInput::start: isActive_ = true; isStopping_ = false; unlock
InStartActivate ==
    /\ ctl.pc = "activate"
    /\ isActive_' = TRUE
    /\ isStopping_' = FALSE
    /\ mutex_' = "none"
    /\ ctl' = [pc |-> "idle"]
    /\ UNCHANGED <<stream, channelCount_, rtSampleRate_, devRates, accepted, cb, opens>>
    /\ UNCHANGED ringVars
    /\ UNCHANGED <<rtAudio_, readPromise_, promises, app>>
    /\ UNCHANGED videoVars
    /\ UNCHANGED playerVars

\* RtAudioInput::stop: std::lock_guard lock(mutex_);
InStopLock ==
    /\ ctl.pc = "idle"
    /\ clears < MaxClears
    /\ Lock("ctl")
    /\ ctl' = [pc |-> "stopFlag"]
    /\ UNCHANGED <<isStopping_, stream, channelCount_, rtSampleRate_, devRates, accepted, cb, opens>>
    /\ UNCHANGED ringVars
    /\ UNCHANGED inputVars
    /\ UNCHANGED videoVars
    /\ UNCHANGED playerVars

\* RtAudioInput::stop: isStopping_ = true; if (isActive_ && rtAudio_)
InStopFlag ==
    /\ ctl.pc = "stopFlag"
    /\ isStopping_' = TRUE
    /\ ctl' = [pc |-> IF isActive_ /\ rtAudio_ THEN "stopStream" ELSE "clearHead"]
    /\ UNCHANGED <<mutex_, stream, channelCount_, rtSampleRate_, devRates, accepted, cb, opens>>
    /\ UNCHANGED ringVars
    /\ UNCHANGED inputVars
    /\ UNCHANGED videoVars
    /\ UNCHANGED playerVars

\* RtAudioInput::stop: if (isStreamRunning()) stopStream(); an RtAudioError
\* leaves the try block
InStopStream ==
    /\ ctl.pc = "stopStream"
    /\ \E res \in Outcomes :
          IF ~stream.running
          THEN /\ stream' = stream
               /\ ctl' = [pc |-> "closeStream"]
          ELSE IF res = "ok"
          THEN /\ stream' = [stream EXCEPT !.running = FALSE]
               /\ ctl' = [pc |-> "closeStream"]
          ELSE /\ stream' = stream
               /\ ctl' = [pc |-> "clearHead"]
    /\ UNCHANGED <<isStopping_, mutex_, channelCount_, rtSampleRate_, devRates, accepted, cb, opens>>
    /\ UNCHANGED ringVars
    /\ UNCHANGED inputVars
    /\ UNCHANGED videoVars
    /\ UNCHANGED playerVars

\* RtAudioInput::stop: if (isStreamOpen()) closeStream(); -- joins the
\* callback thread
InStopCloseStream ==
    /\ ctl.pc = "closeStream"
    /\ \E res \in Outcomes :
          IF stream.open /\ res = "ok"
          THEN /\ cb.pc = "idle"
               /\ stream' = [open |-> FALSE, running |-> FALSE]
          ELSE stream' = stream
    /\ ctl' = [pc |-> "clearHead"]
    /\ UNCHANGED <<isStopping_, mutex_, channelCount_, rtSampleRate_, devRates, accepted, cb, opens>>
    /\ UNCHANGED ringVars
    /\ UNCHANGED inputVars
    /\ UNCHANGED videoVars
    /\ UNCHANGED playerVars

\* RtAudioInput::stop: isActive_ = false; buffer_.clear(): head_.store(0)
InStopClearHead ==
    /\ ctl.pc = "clearHead"
    /\ isActive_' = FALSE
    /\ head_' = 0
    /\ ctl' = [pc |-> "clearTail"]
    /\ UNCHANGED <<tail_, buffer_, w, r, written, readOut, clears>>
    /\ UNCHANGED <<isStopping_, mutex_, stream, channelCount_, rtSampleRate_, devRates, accepted, cb, opens>>
    /\ UNCHANGED <<rtAudio_, readPromise_, promises, app>>
    /\ UNCHANGED videoVars
    /\ UNCHANGED playerVars

\* RtAudioInput::stop: buffer_.clear(): tail_.store(0)
InStopClearTail ==
    /\ ctl.pc = "clearTail"
    /\ tail_' = 0
    /\ clears' = clears + 1
    /\ written' = <<>>
    /\ readOut' = <<>>
    /\ ctl' = [pc |-> "reject"]
    /\ UNCHANGED <<head_, buffer_, w, r>>
    /\ UNCHANGED <<isStopping_, mutex_, stream, channelCount_, rtSampleRate_, devRates, accepted, cb, opens>>
    /\ UNCHANGED inputVars
    /\ UNCHANGED videoVars
    /\ UNCHANGED playerVars

\* RtAudioInput::stop: if (readPromise_) { reject(); reset(); } unlock
InStopReject ==
    /\ ctl.pc = "reject"
    /\ IF readPromise_ # 0
       THEN /\ promises' = Reject(promises, readPromise_)
            /\ readPromise_' = 0
       ELSE UNCHANGED <<promises, readPromise_>>
    /\ mutex_' = "none"
    /\ ctl' = [pc |-> "idle"]
    /\ UNCHANGED <<isStopping_, stream, channelCount_, rtSampleRate_, devRates, accepted, cb, opens>>
    /\ UNCHANGED ringVars
    /\ UNCHANGED <<isActive_, rtAudio_, app>>
    /\ UNCHANGED videoVars
    /\ UNCHANGED playerVars

\* RtAudioInput::read is called with a new promise
InRead ==
    /\ app.pc = "idle"
    /\ Len(promises) < MaxReads
    /\ promises' = Append(promises, NewPromise)
    /\ app' = [pc |-> "lock", p |-> Len(promises) + 1]
    /\ UNCHANGED ringVars
    /\ UNCHANGED audioVars
    /\ UNCHANGED <<isActive_, rtAudio_, readPromise_>>
    /\ UNCHANGED videoVars
    /\ UNCHANGED playerVars

\* RtAudioInput::read: std::lock_guard lock(mutex_);
InReadLock ==
    /\ app.pc = "lock"
    /\ Lock("app")
    /\ app' = [app EXCEPT !.pc = "check"]
    /\ UNCHANGED ringVars
    /\ UNCHANGED <<isStopping_, stream, channelCount_, rtSampleRate_, devRates, accepted, ctl, cb, opens>>
    /\ UNCHANGED <<isActive_, rtAudio_, readPromise_, promises>>
    /\ UNCHANGED videoVars
    /\ UNCHANGED playerVars

\* read() that parks the new promise over the one already parked
InReadCheckReplace ==
    /\ app.pc = "check"
    /\ IF ~isActive_
       THEN /\ promises' = Reject(promises, app.p)
            /\ app' = [pc |-> "idle", p |-> 0]
            /\ mutex_' = "none"
            /\ UNCHANGED <<r, readPromise_>>
       ELSE IF Available(head_, tail_) >= cChunkSize
       THEN /\ ReadEnter(cChunkSize, FALSE)
            /\ app' = [app EXCEPT !.pc = "read"]
            /\ UNCHANGED <<mutex_, readPromise_, promises>>
       ELSE /\ readPromise_' = app.p
            /\ promises' = [promises EXCEPT ![app.p].parked = TRUE]
            /\ app' = [pc |-> "idle", p |-> 0]
            /\ mutex_' = "none"
            /\ r' = r
    /\ UNCHANGED <<head_, tail_, buffer_, w, written, readOut, clears>>
    /\ UNCHANGED <<isStopping_, stream, channelCount_, rtSampleRate_, devRates, accepted, ctl, cb, opens>>
    /\ UNCHANGED <<isActive_, rtAudio_>>
    /\ UNCHANGED videoVars
    /\ UNCHANGED playerVars

\* read() that serves a request from any buffered data
InReadCheckAny ==
    /\ app.pc = "check"
    /\ IF ~isActive_ \/ readPromise_ # 0
       THEN /\ promises' = Reject(promises, app.p)
            /\ app' = [pc |-> "idle", p |-> 0]
            /\ mutex_' = "none"
            /\ UNCHANGED <<r, readPromise_>>
       ELSE IF Available(head_, tail_) > 0
       THEN /\ ReadEnter(cChunkSize, FALSE)
            /\ app' = [app EXCEPT !.pc = "read"]
            /\ UNCHANGED <<mutex_, readPromise_, promises>>
       ELSE /\ readPromise_' = app.p
            /\ promises' = [promises EXCEPT ![app.p].parked = TRUE]
            /\ app' = [pc |-> "idle", p |-> 0]
            /\ mutex_' = "none"
            /\ r' = r
    /\ UNCHANGED <<head_, tail_, buffer_, w, written, readOut, clears>>
    /\ UNCHANGED <<isStopping_, stream, channelCount_, rtSampleRate_, devRates, accepted, ctl, cb, opens>>
    /\ UNCHANGED <<isActive_, rtAudio_>>
    /\ UNCHANGED videoVars
    /\ UNCHANGED playerVars

\* RtAudioInput::read: inactive or already parked: reject; a chunk buffered:
\* buffer_.read(data, cChunkSize); otherwise park the promise and unlock
InReadCheck ==
    /\ app.pc = "check"
    /\ IF ~isActive_ \/ readPromise_ # 0
       THEN /\ promises' = Reject(promises, app.p)
            /\ app' = [pc |-> "idle", p |-> 0]
            /\ mutex_' = "none"
            /\ UNCHANGED <<r, readPromise_>>
       ELSE IF Available(head_, tail_) >= cChunkSize
       THEN /\ ReadEnter(cChunkSize, FALSE)
            /\ app' = [app EXCEPT !.pc = "read"]
            /\ UNCHANGED <<mutex_, readPromise_, promises>>
       ELSE /\ readPromise_' = app.p
            /\ promises' = [promises EXCEPT ![app.p].parked = TRUE]
            /\ app' = [pc |-> "idle", p |-> 0]
            /\ mutex_' = "none"
            /\ r' = r
    /\ UNCHANGED <<head_, tail_, buffer_, w, written, readOut, clears>>
    /\ UNCHANGED <<isStopping_, stream, channelCount_, rtSampleRate_, devRates, accepted, ctl, cb, opens>>
    /\ UNCHANGED <<isActive_, rtAudio_>>
    /\ UNCHANGED videoVars
    /\ UNCHANGED playerVars

\* RtAudioInput::read: promise->resolve(std::move(data)); unlock
InReadResolve ==
    /\ app.pc = "read"
    /\ r.pc = "done"
    /\ promises' = Resolve(promises, app.p, Take(r.dst, r.ret))
    /\ r' = [r EXCEPT !.pc = "idle"]
    /\ app' = [pc |-> "idle", p |-> 0]
    /\ mutex_' = "none"
    /\ UNCHANGED <<head_, tail_, buffer_, w, written, readOut, clears>>
    /\ UNCHANGED <<isStopping_, stream, channelCount_, rtSampleRate_, devRates, accepted, ctl, cb, opens>>
    /\ UNCHANGED <<isActive_, rtAudio_, readPromise_>>
    /\ UNCHANGED videoVars
    /\ UNCHANGED playerVars

\* the callback thread invokes rtAudioCallback of the running stream
InCbInvoke ==
    /\ cb.pc = "idle"
    /\ stream.running
    /\ Len(written) < MaxProduced
    /\ \E nBufferFrames \in BufferFrames :
          cb' = [CbIdle EXCEPT !.pc = "check", !.size = nBufferFrames]
    /\ UNCHANGED <<isStopping_, mutex_, stream, channelCount_, rtSampleRate_, devRates, accepted, ctl, opens>>
    /\ UNCHANGED ringVars
    /\ UNCHANGED inputVars
    /\ UNCHANGED videoVars
    /\ UNCHANGED playerVars

\* rtAudioCallback: if (!audioInput || isStopping_) return 0;
\* bytes = nBufferFrames * channelCount_ * 2; buffer_.write(srcBytes, bytes)
InCbCheck ==
    /\ cb.pc = "check"
    /\ IF isStopping_
       THEN /\ cb' = [cb EXCEPT !.pc = "ret", !.ret = 0]
            /\ w' = w
       ELSE LET bytes == cb.size * channelCount_ * 2
            IN /\ WriteEnter(Payload(bytes), FALSE)
               /\ cb' = [cb EXCEPT !.pc = "write", !.size = bytes]
    /\ UNCHANGED <<head_, tail_, buffer_, r, written, readOut, clears>>
    /\ UNCHANGED <<isStopping_, mutex_, stream, channelCount_, rtSampleRate_, devRates, accepted, ctl, opens>>
    /\ UNCHANGED inputVars
    /\ UNCHANGED videoVars
    /\ UNCHANGED playerVars

\* callback that serves the parked promise whoever holds the mutex
InCbTryLockUnowned ==
    /\ cb.pc = "write"
    /\ w.pc = "done"
    /\ w' = [w EXCEPT !.pc = "idle"]
    /\ IF readPromise_ # 0 /\ r.pc = "idle" /\ Available(head_, tail_) >= cChunkSize
       THEN /\ mutex_' = "cb"
            /\ ReadEnter(cChunkSize, FALSE)
            /\ cb' = [cb EXCEPT !.pc = "read"]
       ELSE /\ cb' = [cb EXCEPT !.pc = "ret", !.ret = 0]
            /\ UNCHANGED <<mutex_, r>>
    /\ UNCHANGED <<head_, tail_, buffer_, written, readOut, clears>>
    /\ UNCHANGED <<isStopping_, stream, channelCount_, rtSampleRate_, devRates, accepted, ctl, opens>>
    /\ UNCHANGED inputVars
    /\ UNCHANGED videoVars
    /\ UNCHANGED playerVars

\* rtAudioCallback: std::unique_lock lock(mutex_, std::try_to_lock);
\* if (owns_lock() && readPromise_ && available() >= cChunkSize) buffer_.read
InCbTryLock ==
    /\ cb.pc = "write"
    /\ w.pc = "done"
    /\ w' = [w EXCEPT !.pc = "idle"]
    /\ IF mutex_ = "none" /\ readPromise_ # 0 /\ Available(head_, tail_) >= cChunkSize
       THEN /\ mutex_' = "cb"
            /\ ReadEnter(cChunkSize, FALSE)
            /\ cb' = [cb EXCEPT !.pc = "read"]
       ELSE /\ cb' = [cb EXCEPT !.pc = "ret", !.ret = 0]
            /\ UNCHANGED <<mutex_, r>>
    /\ UNCHANGED <<head_, tail_, buffer_, written, readOut, clears>>
    /\ UNCHANGED <<isStopping_, stream, channelCount_, rtSampleRate_, devRates, accepted, ctl, opens>>
    /\ UNCHANGED inputVars
    /\ UNCHANGED videoVars
    /\ UNCHANGED playerVars

\* rtAudioCallback: readPromise_->resolve(std::move(data)); reset(); unlock
InCbResolve ==
    /\ cb.pc = "read"
    /\ r.pc = "done"
    /\ promises' = Resolve(promises, readPromise_, Take(r.dst, r.ret))
    /\ readPromise_' = 0
    /\ r' = [r EXCEPT !.pc = "idle"]
    /\ cb' = [cb EXCEPT !.pc = "ret", !.ret = 0]
    /\ mutex_' = "none"
    /\ UNCHANGED <<head_, tail_, buffer_, w, written, readOut, clears>>
    /\ UNCHANGED <<isStopping_, stream, channelCount_, rtSampleRate_, devRates, accepted, ctl, opens>>
    /\ UNCHANGED <<isActive_, rtAudio_, app>>
    /\ UNCHANGED videoVars
    /\ UNCHANGED playerVars

\* rtAudioCallback has returned
InCbReturn ==
    /\ cb.pc = "ret"
    /\ cb' = [cb EXCEPT !.pc = "idle"]
    /\ UNCHANGED <<isStopping_, mutex_, stream, channelCount_, rtSampleRate_, devRates, accepted, ctl, opens>>
    /\ UNCHANGED ringVars
    /\ UNCHANGED inputVars
    /\ UNCHANGED videoVars
    /\ UNCHANGED playerVars

InInit == OutInit

InNext ==
    \/ InStartLock
    \/ InStartBody
    \/ InStartActivate
    \/ InStopLock
    \/ InStopFlag
    \/ InStopStream
    \/ InStopCloseStream
    \/ InStopClearHead
    \/ InStopClearTail
    \/ InStopReject
    \/ InRead
    \/ InReadLock
    \/ InReadCheck
    \/ ReadLoadTail
    \/ ReadLoadHead
    \/ ReadCopyFirst
    \/ ReadCopyWrapped
    \/ ReadStoreTail
    \/ InReadResolve
    \/ InCbInvoke
    \/ InCbCheck
    \/ WriteLoadHead
    \/ WriteLoadTail
    \/ WriteCopyFirst
    \/ WriteCopyWrapped
    \/ WriteStoreHead
    \/ InCbTryLock
    \/ InCbResolve
    \/ InCbReturn

SpecIn == InInit /\ [][InNext]_vars

\* the steps of stop() and start() after the call has taken mutex_
InCtlStep ==
    \/ InStartBody
    \/ InStartActivate
    \/ InStopFlag
    \/ InStopStream
    \/ InStopCloseStream
    \/ InStopClearHead
    \/ InStopClearTail
    \/ InStopReject

\* the steps of read() after the call
InAppStep ==
    \/ InReadLock
    \/ InReadCheck
    \/ InReadResolve

\* the steps of the callback thread of a running stream
InCbStep ==
    \/ InCbInvoke
    \/ InCbCheck
    \/ InCbTryLock
    \/ InCbResolve
    \/ InCbReturn

\* the steps of buffer_.read and buffer_.write
InRingReadStep == ReadLoadTail \/ ReadLoadHead \/ ReadCopyFirst \/ ReadCopyWrapped \/ ReadStoreTail
InRingWriteStep == WriteLoadHead \/ WriteLoadTail \/ WriteCopyFirst \/ WriteCopyWrapped \/ WriteStoreHead

\* every thread that is inside a call keeps running, and the callback thread
\* of a running stream keeps being invoked; the calls of start(), stop() and
\* read() themselves are up to the caller. read() waiting for mutex_ gets it
\* when it is released again and again (strong fairness of the lock step).
FairSpecIn ==
    /\ SpecIn
    /\ WF_vars(InCtlStep)
    /\ SF_vars(InAppStep)
    /\ WF_vars(InCbStep)
    /\ WF_vars(InRingReadStep)
    /\ WF_vars(InRingWriteStep)

(***************************************************************************)
(* FFmpegDrmVideoOutput.  write() and stop() run under mutex_; the kernel  *)
(* keeps the framebuffers and GEM handles of drmFd_; the decoder hands out *)
(* a pool buffer that no live frame reference points to.                   *)
(***************************************************************************)
Bufs == 1..NumBufs

\* the id the kernel gives to a new object: the lowest one not in use
LowestFree(used) ==
    CHOOSE n \in 1..(Cardinality(used) + 1) :
        n \notin used /\ \A m \in 1..(n - 1) : m \in used

\* drmPrimeFDToHandle: the handle the file already has for the buffer, or a
\* new one
HandleOf(buf) ==
    IF \E g \in kgem : g.buf = buf
    THEN (CHOOSE g \in kgem : g.buf = buf).id
    ELSE LowestFree({g.id : g \in kgem})

\* the releases that closing the live objects `ids` of one kind amounts to
Releases(kind, ids, by) ==
    {[kind |-> kind, sub |-> o.sub, at |-> subs, by |-> by] :
        o \in {x \in owners : x.kind = kind /\ x.id \in ids}}

\* av_frame_free of the references in `fs`
FrameReleases(fs, by) ==
    {[kind |-> "frame", sub |-> f.sub, at |-> subs, by |-> by] :
        f \in (fs \cap refs)}

VwIdle == [pc |-> "idle", buf |-> 0, handle |-> 0, fbId |-> 0, prime |-> FALSE]

\* the rest of the state, which the video output does not touch
NotVideo ==
    <<head_, tail_, buffer_, w, r, written, readOut, clears, isStopping_,
      stream, channelCount_, rtSampleRate_, devRates, accepted, ctl, cb,
      rtAudio_, readPromise_, promises, app,
      pipeline_, appsrc_, gstInitialized, pipelines, pushed, impl,
      playlist_, playlistIndex_, repeatMode_, playing_, paused_, stopRequested_,
      currentFile_, decodeThread_, sampleRate_, bitDepth_, nativeOffload_, worker,
      pm, pq, emitted, plays, crashed, track, dac>>

\* releasing the pointers d and then p, of which `live` are valid: a second
\* release happens when one of them is dangling or both are the same
DoubleFree(kind, d, p, null, live, by) ==
    IF (d # null /\ d \notin live) \/ (p # null /\ (p \notin live \/ p = d))
    THEN {[kind |-> kind, by |-> by]}
    ELSE {}

\* the fields of the component and the kernel objects that open() and stop()
\* work on, as one value
VState ==
    [swDumbHandle |-> swDumbHandle_, swsCtx |-> swsCtx_,
     drmFd |-> drmFd_, drmInitialized |-> drmInitialized_, codecCtx |-> codecCtx_,
     displayedFrame |-> displayedFrame_,
     previousDisplayedFrame |-> previousDisplayedFrame_,
     currentFbId |-> currentFbId_, previousFbId |-> previousFbId_,
     currentHandle |-> currentHandle_, previousHandle |-> previousHandle_,
     kfbs |-> kfbs, kgem |-> kgem, refs |-> refs, owners |-> owners,
     released |-> released, leaked |-> leaked,
     usingHwAccel |-> usingHwAccel_, doubles |-> doubles]

InitDrmOutcomes == {"nofd", "fail", "ok"}

\* initDrmDisplay: drmFd_ = ::open(...) overwrites the descriptor; a file that
\* was open stays open with its objects and nothing names it any more.
\* "nofd": ::open failed; "fail": a later step returned false; "ok":
\* drmInitialized_ = true
InitDrmDisplay(st, o) ==
    LET had == st.drmFd >= 0
        st1 == IF had
               THEN [st EXCEPT
                       !.leaked = [st.leaked EXCEPT
                                      !.files = @ + 1,
                                      !.fbs = @ \cup st.kfbs,
                                      !.handles = @ + Cardinality(st.kgem)],
                       !.kfbs = {},
                       !.kgem = {},
                       !.owners = {}]
               ELSE st
    IN [st1 EXCEPT !.drmFd = IF o = "nofd" THEN -1 ELSE 3,
                   !.drmInitialized = IF o = "ok" THEN TRUE ELSE @]

InitDecoderOutcomes == {"nocodec", "noalloc", "fail", "failsw", "oksw", "ok"}

\* initDecoder: "nocodec": no H.264 decoder, codecCtx_ untouched; otherwise
\* codecCtx_ = avcodec_alloc_context3(...) overwrites the pointer ("noalloc":
\* with null).  Then av_hwdevice_ctx_create for each candidate device sets
\* usingHwAccel_ ("oksw", "failsw": every candidate failed), and "fail",
\* "failsw": avcodec_open2, av_parser_init or an allocation failed
InitDecoder(st, o) ==
    IF o = "nocodec"
    THEN st
    ELSE [st EXCEPT !.codecCtx = (o # "noalloc"),
                    !.leaked = [st.leaked EXCEPT
                                   !.ctxs = IF st.codecCtx THEN @ + 1 ELSE @],
                    !.usingHwAccel = IF o = "noalloc" THEN @
                                     ELSE o \in {"fail", "ok"}]

\* cleanupDecoder: av_frame_free of both retained references,
\* avcodec_free_context
CleanupDecoder(st, by) ==
    LET fs == {st.displayedFrame, st.previousDisplayedFrame} \cap st.refs
    IN [st EXCEPT
          !.refs = @ \ fs,
          !.released = @ \cup {[kind |-> "frame", sub |-> f.sub, at |-> subs,
                                by |-> by] : f \in fs},
          !.displayedFrame = NoFrame,
          !.previousDisplayedFrame = NoFrame,
          !.swsCtx = FALSE,
          !.codecCtx = FALSE,
          !.usingHwAccel = FALSE,
          !.doubles = @ \cup DoubleFree("frame", st.displayedFrame,
                                        st.previousDisplayedFrame, NoFrame,
                                        st.refs, by)]

\* cleanupDrm: GEM_CLOSE and drmModeRmFB of the four slots on drmFd_, then
\* close(drmFd_), with which the kernel drops what the file still holds
CleanupDrm(st, by) ==
    [st EXCEPT
       !.released = @ \cup {[kind |-> o.kind, sub |-> o.sub, at |-> subs,
                             by |-> by] : o \in st.owners},
       !.swDumbHandle = FALSE,
       !.owners = {},
       !.kfbs = {},
       !.kgem = {},
       !.currentHandle = 0,
       !.previousHandle = 0,
       !.currentFbId = 0,
       !.previousFbId = 0,
       !.drmFd = -1,
       !.drmInitialized = FALSE,
       !.doubles = @ \cup (IF st.drmFd >= 0
                           THEN DoubleFree("handle", st.currentHandle,
                                           st.previousHandle, 0,
                                           {g.id : g \in st.kgem}, by)
                                \cup DoubleFree("fb", st.currentFbId,
                                                st.previousFbId, 0, st.kfbs, by)
                           ELSE {})]

\* the assignment of such a value to the fields
Install(st) ==
    /\ drmFd_' = st.drmFd
    /\ drmInitialized_' = st.drmInitialized
    /\ codecCtx_' = st.codecCtx
    /\ displayedFrame_' = st.displayedFrame
    /\ previousDisplayedFrame_' = st.previousDisplayedFrame
    /\ currentFbId_' = st.currentFbId
    /\ previousFbId_' = st.previousFbId
    /\ currentHandle_' = st.currentHandle
    /\ previousHandle_' = st.previousHandle
    /\ kfbs' = st.kfbs
    /\ kgem' = st.kgem
    /\ refs' = st.refs
    /\ owners' = st.owners
    /\ released' = st.released
    /\ leaked' = st.leaked
    /\ usingHwAccel_' = st.usingHwAccel
    /\ doubles' = st.doubles
    /\ swDumbHandle_' = st.swDumbHandle
    /\ swsCtx_' = st.swsCtx

\* FFmpegDrmVideoOutput::open, step 1: lock, initDrmDisplay(); on failure
\* cleanupDrm() and return false
VidOpenDisplay ==
    /\ impl = "ffmpeg"
    /\ ~g_signalReceived
    /\ mutex_ = "none"
    /\ opens < MaxOpens
    /\ opens' = opens + 1
    /\ \E o \in InitDrmOutcomes :
          IF o = "ok"
          THEN /\ Install(InitDrmDisplay(VState, o))
               /\ mutex_' = "open"
               /\ vw' = [VwIdle EXCEPT !.pc = "initDecoder"]
               /\ vres' = [op |-> "none", ok |-> FALSE]
          ELSE /\ Install(CleanupDrm(InitDrmDisplay(VState, o), "open"))
               /\ vres' = [op |-> "open", ok |-> FALSE]
               /\ UNCHANGED <<mutex_, vw>>
    /\ UNCHANGED <<isActive_, frameCount_, g_signalReceived, subs>>
    /\ UNCHANGED sig
    /\ UNCHANGED cursorVars
    /\ UNCHANGED NotVideo

\* the open() whose failing initDecoder() is followed by cleanupDecoder() only
VidOpenDecoderKeepDisplay ==
    /\ impl = "ffmpeg"
    /\ ~g_signalReceived
    /\ vw.pc = "initDecoder"
    /\ \E o \in InitDecoderOutcomes :
          IF o \in {"ok", "oksw"}
          THEN /\ Install(InitDecoder(VState, o))
               /\ vres' = [op |-> "open", ok |-> TRUE]
          ELSE /\ Install(CleanupDecoder(InitDecoder(VState, o), "open"))
               /\ vres' = [op |-> "open", ok |-> FALSE]
    /\ vw' = VwIdle
    /\ mutex_' = "none"
    /\ UNCHANGED <<isActive_, opens, frameCount_, g_signalReceived, subs>>
    /\ UNCHANGED sig
    /\ UNCHANGED cursorVars
    /\ UNCHANGED NotVideo

\* FFmpegDrmVideoOutput::open, step 2: initDecoder(); on failure
\* cleanupDecoder(), cleanupDrm() and return false; otherwise return true
VidOpenDecoder ==
    /\ impl = "ffmpeg"
    /\ ~g_signalReceived
    /\ vw.pc = "initDecoder"
    /\ \E o \in InitDecoderOutcomes :
          IF o \in {"ok", "oksw"}
          THEN /\ Install(InitDecoder(VState, o))
               /\ vres' = [op |-> "open", ok |-> TRUE]
          ELSE /\ Install(CleanupDrm(CleanupDecoder(InitDecoder(VState, o), "open"),
                                     "open"))
               /\ vres' = [op |-> "open", ok |-> FALSE]
    /\ vw' = VwIdle
    /\ mutex_' = "none"
    /\ UNCHANGED <<isActive_, opens, frameCount_, g_signalReceived, subs>>
    /\ UNCHANGED sig
    /\ UNCHANGED cursorVars
    /\ UNCHANGED NotVideo

\* the descriptor of the cursor's own open("/dev/dri/card0")
CursorFd == 5
\* createReq.handle, the first handle on that descriptor
CursorHandle == 1
\* initCursor: open() fails; a failure before or at CREATE_DUMB; MAP_DUMB or
\* mmap fails; everything succeeds
InitCursorOutcomes == {"noopen", "early", "nomap", "ok"}
\* the outcomes the device of this run can produce
CursorOutcomes == IF cursorEnv = "ok" THEN {"ok"} ELSE InitCursorOutcomes
\* drmModeSetCursor(...) == 0
SetCursorResults == IF cursorEnv = "ok" THEN {TRUE} ELSE BOOLEAN
\* cursor coordinates
CursorXY == {0, 1}

\* an initCursor that draws the glyph again when the cursor is initialized
InitCursorRedraw(o) ==
    IF cursorInitialized_
    THEN /\ kcursor' = [kcursor EXCEPT !.drawn = @ + 1]
         /\ UNCHANGED <<cursorInitialized_, cursorVisible_, cursorDrmFd_,
                        cursorBufferHandle_>>
    ELSE /\ cursorInitialized_' = (o = "ok")
         /\ cursorVisible_' = (IF o = "ok" THEN FALSE ELSE cursorVisible_)
         /\ cursorDrmFd_' = (IF o = "ok" THEN CursorFd ELSE -1)
         /\ cursorBufferHandle_' = (IF o \in {"nomap", "ok"} THEN CursorHandle
                                    ELSE cursorBufferHandle_)
         /\ kcursor' = (IF o = "ok" THEN [kcursor EXCEPT !.drawn = @ + 1]
                        ELSE kcursor)

\* FFmpegDrmVideoOutput::initCursor with outcome o: nothing when initialized;
\* else the device is opened, the dumb buffer created, mapped and the arrow
\* drawn into it; each failure closes the descriptor and leaves the rest
InitCursor(o) ==
    IF cursorInitialized_
    THEN UNCHANGED <<cursorInitialized_, cursorVisible_, cursorDrmFd_,
                     cursorBufferHandle_, kcursor>>
    ELSE /\ cursorInitialized_' = (o = "ok")
         /\ cursorVisible_' = (IF o = "ok" THEN FALSE ELSE cursorVisible_)
         /\ cursorDrmFd_' = (IF o = "ok" THEN CursorFd ELSE -1)
         /\ cursorBufferHandle_' = (IF o \in {"nomap", "ok"} THEN CursorHandle
                                    ELSE cursorBufferHandle_)
         /\ kcursor' = (IF o = "ok" THEN [kcursor EXCEPT !.drawn = @ + 1]
                        ELSE kcursor)

\* FFmpegDrmVideoOutput::cleanupCursor: nothing when not initialized; else
\* the cursor is taken off the CRTC, the buffer destroyed, the descriptor
\* closed
CleanupCursor ==
    IF ~cursorInitialized_
    THEN UNCHANGED <<cursorInitialized_, cursorVisible_, cursorDrmFd_,
                     cursorBufferHandle_, kcursor>>
    ELSE /\ cursorInitialized_' = FALSE
         /\ cursorVisible_' = FALSE
         /\ IF cursorDrmFd_ >= 0
            THEN /\ cursorDrmFd_' = -1
                 /\ cursorBufferHandle_' = 0
                 /\ kcursor' = KcursorOff
            ELSE /\ UNCHANGED <<cursorDrmFd_, cursorBufferHandle_>>
                 /\ kcursor' = [kcursor EXCEPT !.drawn = 0]

\* FFmpegDrmVideoOutput::init
VidInit ==
    /\ impl = "ffmpeg"
    /\ ~g_signalReceived
    /\ mutex_ = "none"
    /\ IF ~codecCtx_ \/ ~drmInitialized_
       THEN /\ vres' = [op |-> "init", ok |-> FALSE]
            /\ UNCHANGED <<isActive_, frameCount_>>
            /\ UNCHANGED <<cursorInitialized_, cursorVisible_, cursorDrmFd_,
                            cursorBufferHandle_, kcursor>>
       ELSE IF isActive_
       THEN /\ vres' = [op |-> "init", ok |-> TRUE]
            /\ UNCHANGED <<isActive_, frameCount_>>
            /\ UNCHANGED <<cursorInitialized_, cursorVisible_, cursorDrmFd_,
                            cursorBufferHandle_, kcursor>>
       ELSE /\ isActive_' = TRUE
            /\ frameCount_' = 0
            /\ \E o \in CursorOutcomes : InitCursor(o)
            /\ vres' = [op |-> "init", ok |-> TRUE]
    /\ UNCHANGED <<mutex_, opens, drmInitialized_, codecCtx_, drmFd_,
                   g_signalReceived, vw, kfbs, kgem, refs, subs, owners, released,
                   leaked>>
    /\ UNCHANGED slotVars
    /\ UNCHANGED usingHwAccel_
    /\ UNCHANGED doubles
    /\ UNCHANGED sig
    /\ UNCHANGED swDumbHandle_
    /\ UNCHANGED swsCtx_
    /\ UNCHANGED cursorEnv
    /\ UNCHANGED NotVideo

\* the pool buffers avcodec_receive_frame can hand out: those no live frame
\* reference points to.  Buffers that no GEM handle names either are
\* interchangeable, and the lowest stands for all of them
PoolBufs ==
    LET held == {f.buf : f \in refs}
        named == {g.buf : g \in kgem}
        fresh == Bufs \ (held \cup named)
    IN (named \ held)
          \cup (IF fresh = {} THEN {}
                ELSE {CHOOSE b \in fresh : \A c \in fresh : b <= c})

\* the write() whose displayFrame picks the path by usingHwAccel_
VidWriteByFlag ==
    /\ impl = "ffmpeg"
    /\ ~g_signalReceived
    /\ mutex_ = "none"
    /\ vw.pc = "idle"
    /\ frameCount_ < MaxFrames
    /\ subs < MaxFrames
    /\ IF ~isActive_ \/ ~codecCtx_
       THEN /\ vres' = [op |-> "write", ok |-> FALSE]
            /\ UNCHANGED <<mutex_, vw>>
       ELSE /\ mutex_' = "write"
            /\ vres' = [op |-> "none", ok |-> FALSE]
            /\ \E decoded \in BOOLEAN, prime \in BOOLEAN,
                  buf \in PoolBufs :
                  vw' = [VwIdle EXCEPT
                            !.pc = IF ~decoded THEN "done"
                                   ELSE IF usingHwAccel_ THEN "import" ELSE "software",
                            !.buf = IF decoded THEN buf ELSE 0,
                            !.prime = decoded /\ prime]
    /\ UNCHANGED <<isActive_, opens, drmInitialized_, codecCtx_, drmFd_,
                   frameCount_, g_signalReceived, kfbs, kgem, refs,
                   subs, owners, released, leaked>>
    /\ UNCHANGED slotVars
    /\ UNCHANGED usingHwAccel_
    /\ UNCHANGED doubles
    /\ UNCHANGED sig
    /\ UNCHANGED swDumbHandle_
    /\ UNCHANGED swsCtx_
    /\ UNCHANGED cursorVars
    /\ UNCHANGED NotVideo

\* FFmpegDrmVideoOutput::write: lock, the isActive_ / codecCtx_ check, parse,
\* avcodec_send_packet, avcodec_receive_frame(codecCtx_, frame_).  MaxFrames
\* bounds the frames of a session and the submissions of all sessions
VidWrite ==
    /\ impl = "ffmpeg"
    /\ ~g_signalReceived
    /\ mutex_ = "none"
    /\ vw.pc = "idle"
    /\ frameCount_ < MaxFrames
    /\ subs < MaxFrames
    /\ IF ~isActive_ \/ ~codecCtx_
       THEN /\ vres' = [op |-> "write", ok |-> FALSE]
            /\ UNCHANGED <<mutex_, vw>>
       ELSE /\ mutex_' = "write"
            /\ vres' = [op |-> "none", ok |-> FALSE]
            /\ \E decoded \in BOOLEAN, prime \in BOOLEAN,
                  buf \in PoolBufs :
                  vw' = [VwIdle EXCEPT
                            !.pc = IF ~decoded THEN "done"
                                   ELSE IF prime THEN "import" ELSE "software",
                            !.buf = IF decoded THEN buf ELSE 0,
                            !.prime = decoded /\ prime]
    /\ UNCHANGED <<isActive_, opens, drmInitialized_, codecCtx_, drmFd_,
                   frameCount_, g_signalReceived, kfbs, kgem, refs,
                   subs, owners, released, leaked>>
    /\ UNCHANGED slotVars
    /\ UNCHANGED usingHwAccel_
    /\ UNCHANGED doubles
    /\ UNCHANGED sig
    /\ UNCHANGED swDumbHandle_
    /\ UNCHANGED swsCtx_
    /\ UNCHANGED cursorVars
    /\ UNCHANGED NotVideo

\* displayFrame: the drmInitialized_ check and drmPrimeFDToHandle
VidImport ==
    /\ impl = "ffmpeg"
    /\ ~g_signalReceived
    /\ vw.pc = "import"
    /\ \E res \in Outcomes :
          IF ~drmInitialized_ \/ res = "error"
          THEN /\ vw' = [vw EXCEPT !.pc = "failed"]
               /\ kgem' = kgem
          ELSE /\ vw' = [vw EXCEPT !.pc = "addfb", !.handle = HandleOf(vw.buf)]
               /\ kgem' = kgem \cup {[id |-> HandleOf(vw.buf), buf |-> vw.buf]}
    /\ UNCHANGED <<isActive_, mutex_, opens, drmInitialized_, codecCtx_, drmFd_,
                   frameCount_, g_signalReceived, kfbs, refs, subs, owners, released>>
    /\ UNCHANGED slotVars
    /\ UNCHANGED <<leaked, vres>>
    /\ UNCHANGED usingHwAccel_
    /\ UNCHANGED doubles
    /\ UNCHANGED sig
    /\ UNCHANGED swDumbHandle_
    /\ UNCHANGED swsCtx_
    /\ UNCHANGED cursorVars
    /\ UNCHANGED NotVideo

\* displayFrame: drmModeAddFB2WithModifiers, then drmModeAddFB2
VidAddFB ==
    /\ impl = "ffmpeg"
    /\ ~g_signalReceived
    /\ vw.pc = "addfb"
    /\ \E res \in Outcomes :
          IF res = "error"
          THEN /\ vw' = [vw EXCEPT !.pc = "failed"]
               /\ kfbs' = kfbs
          ELSE /\ vw' = [vw EXCEPT !.pc = "setplane", !.fbId = LowestFree(kfbs \cup leaked.fbs)]
               /\ kfbs' = kfbs \cup {LowestFree(kfbs \cup leaked.fbs)}
    /\ UNCHANGED <<isActive_, mutex_, opens, drmInitialized_, codecCtx_, drmFd_,
                   frameCount_, g_signalReceived, kgem, refs, subs, owners, released>>
    /\ UNCHANGED slotVars
    /\ UNCHANGED <<leaked, vres>>
    /\ UNCHANGED usingHwAccel_
    /\ UNCHANGED doubles
    /\ UNCHANGED sig
    /\ UNCHANGED swDumbHandle_
    /\ UNCHANGED swsCtx_
    /\ UNCHANGED cursorVars
    /\ UNCHANGED NotVideo

\* the displayFrame whose failing drmModeSetPlane also removes the framebuffer
\* on screen
VidSetPlaneRmCurrent ==
    /\ impl = "ffmpeg"
    /\ ~g_signalReceived
    /\ vw.pc = "setplane"
    /\ \E res \in Outcomes :
          IF res = "error"
          THEN /\ vw' = [vw EXCEPT !.pc = "failed"]
               /\ kfbs' = kfbs \ {vw.fbId, currentFbId_}
               /\ currentFbId_' = 0
               /\ UNCHANGED <<subs, owners>>
          ELSE /\ vw' = [vw EXCEPT !.pc = "freePrev"]
               /\ kfbs' = kfbs
               /\ subs' = subs + 1
               /\ owners' = owners \cup
                     {[kind |-> "fb", id |-> vw.fbId, sub |-> subs + 1],
                      [kind |-> "handle", id |-> vw.handle, sub |-> subs + 1]}
               /\ UNCHANGED currentFbId_
    /\ UNCHANGED <<isActive_, mutex_, opens, drmInitialized_, codecCtx_, drmFd_,
                   frameCount_, g_signalReceived, kgem, refs, released>>
    /\ UNCHANGED <<displayedFrame_, previousDisplayedFrame_, previousFbId_,
                   currentHandle_, previousHandle_>>
    /\ UNCHANGED <<leaked, vres>>
    /\ UNCHANGED usingHwAccel_
    /\ UNCHANGED doubles
    /\ UNCHANGED sig
    /\ UNCHANGED swDumbHandle_
    /\ UNCHANGED swsCtx_
    /\ UNCHANGED cursorVars
    /\ UNCHANGED NotVideo

\* displayFrame: drmModeSetPlane; on failure drmModeRmFB(fbId)
VidSetPlane ==
    /\ impl = "ffmpeg"
    /\ ~g_signalReceived
    /\ vw.pc = "setplane"
    /\ \E res \in Outcomes :
          IF res = "error"
          THEN /\ vw' = [vw EXCEPT !.pc = "failed"]
               /\ kfbs' = kfbs \ {vw.fbId}
               /\ UNCHANGED <<subs, owners>>
          ELSE /\ vw' = [vw EXCEPT !.pc = "freePrev"]
               /\ kfbs' = kfbs
               /\ subs' = subs + 1
               /\ owners' = owners \cup
                     {[kind |-> "fb", id |-> vw.fbId, sub |-> subs + 1],
                      [kind |-> "handle", id |-> vw.handle, sub |-> subs + 1]}
    /\ UNCHANGED <<isActive_, mutex_, opens, drmInitialized_, codecCtx_, drmFd_,
                   frameCount_, g_signalReceived, kgem, refs, released>>
    /\ UNCHANGED slotVars
    /\ UNCHANGED <<leaked, vres>>
    /\ UNCHANGED usingHwAccel_
    /\ UNCHANGED doubles
    /\ UNCHANGED sig
    /\ UNCHANGED swDumbHandle_
    /\ UNCHANGED swsCtx_
    /\ UNCHANGED cursorVars
    /\ UNCHANGED NotVideo

\* displayFrame: if (previousDisplayedFrame_) av_frame_free(&previousDisplayedFrame_)
VidFreePrevious ==
    /\ impl = "ffmpeg"
    /\ ~g_signalReceived
    /\ vw.pc = "freePrev"
    /\ vw' = [vw EXCEPT !.pc = "rotate"]
    /\ IF previousDisplayedFrame_ # NoFrame
       THEN /\ refs' = refs \ {previousDisplayedFrame_}
            /\ released' = released \cup
                              FrameReleases({previousDisplayedFrame_}, "rotation")
            /\ previousDisplayedFrame_' = NoFrame
       ELSE UNCHANGED <<refs, released, previousDisplayedFrame_>>
    /\ UNCHANGED <<isActive_, mutex_, opens, drmInitialized_, codecCtx_, drmFd_,
                   frameCount_, g_signalReceived, kfbs, kgem, subs, owners>>
    /\ UNCHANGED <<displayedFrame_, currentFbId_, previousFbId_,
                   currentHandle_, previousHandle_>>
    /\ UNCHANGED <<leaked, vres>>
    /\ UNCHANGED usingHwAccel_
    /\ doubles' = doubles \cup DoubleFree("frame", previousDisplayedFrame_, NoFrame,
                                          NoFrame, refs, "rotation")
    /\ UNCHANGED sig
    /\ UNCHANGED swDumbHandle_
    /\ UNCHANGED swsCtx_
    /\ UNCHANGED cursorVars
    /\ UNCHANGED NotVideo

\* displayFrame: previousDisplayedFrame_ = displayedFrame_
VidRotateFrame ==
    /\ impl = "ffmpeg"
    /\ ~g_signalReceived
    /\ vw.pc = "rotate"
    /\ vw' = [vw EXCEPT !.pc = "clone"]
    /\ previousDisplayedFrame_' = displayedFrame_
    /\ UNCHANGED <<isActive_, mutex_, opens, drmInitialized_, codecCtx_, drmFd_,
                   frameCount_, g_signalReceived, kfbs, kgem, refs,
                   subs, owners, released>>
    /\ UNCHANGED <<displayedFrame_, currentFbId_, previousFbId_,
                   currentHandle_, previousHandle_>>
    /\ UNCHANGED <<leaked, vres>>
    /\ UNCHANGED usingHwAccel_
    /\ UNCHANGED doubles
    /\ UNCHANGED sig
    /\ UNCHANGED swDumbHandle_
    /\ UNCHANGED swsCtx_
    /\ UNCHANGED cursorVars
    /\ UNCHANGED NotVideo

\* displayFrame: displayedFrame_ = av_frame_clone(frame), which may be null
VidClone ==
    /\ impl = "ffmpeg"
    /\ ~g_signalReceived
    /\ vw.pc = "clone"
    /\ vw' = [vw EXCEPT !.pc = "rmfb"]
    /\ \E res \in Outcomes :
          IF res = "ok"
          THEN /\ displayedFrame_' = [sub |-> subs, buf |-> vw.buf]
               /\ refs' = refs \cup {[sub |-> subs, buf |-> vw.buf]}
          ELSE /\ displayedFrame_' = NoFrame
               /\ refs' = refs
    /\ UNCHANGED <<isActive_, mutex_, opens, drmInitialized_, codecCtx_, drmFd_,
                   frameCount_, g_signalReceived, kfbs, kgem,
                   subs, owners, released>>
    /\ UNCHANGED <<previousDisplayedFrame_, currentFbId_, previousFbId_,
                   currentHandle_, previousHandle_>>
    /\ UNCHANGED <<leaked, vres>>
    /\ UNCHANGED usingHwAccel_
    /\ UNCHANGED doubles
    /\ UNCHANGED sig
    /\ UNCHANGED swDumbHandle_
    /\ UNCHANGED swsCtx_
    /\ UNCHANGED cursorVars
    /\ UNCHANGED NotVideo

\* displayFrame: if (previousFbId_ != 0) drmModeRmFB(drmFd_, previousFbId_)
VidRmPreviousFb ==
    /\ impl = "ffmpeg"
    /\ ~g_signalReceived
    /\ vw.pc = "rmfb"
    /\ vw' = [vw EXCEPT !.pc = "gemclose"]
    /\ LET gone == {previousFbId_} \cap kfbs
       IN /\ kfbs' = kfbs \ gone
          /\ released' = released \cup Releases("fb", gone, "rotation")
          /\ owners' = {o \in owners : ~(o.kind = "fb" /\ o.id \in gone)}
    /\ UNCHANGED <<isActive_, mutex_, opens, drmInitialized_, codecCtx_, drmFd_,
                   frameCount_, g_signalReceived, kgem, refs, subs>>
    /\ UNCHANGED slotVars
    /\ UNCHANGED <<leaked, vres>>
    /\ UNCHANGED usingHwAccel_
    /\ doubles' = doubles \cup DoubleFree("fb", previousFbId_, 0, 0, kfbs,
                                          "rotation")
    /\ UNCHANGED sig
    /\ UNCHANGED swDumbHandle_
    /\ UNCHANGED swsCtx_
    /\ UNCHANGED cursorVars
    /\ UNCHANGED NotVideo

\* displayFrame: if (previousHandle_ != 0) ioctl(DRM_IOCTL_GEM_CLOSE)
VidClosePreviousHandle ==
    /\ impl = "ffmpeg"
    /\ ~g_signalReceived
    /\ vw.pc = "gemclose"
    /\ vw' = [vw EXCEPT !.pc = "assign"]
    /\ LET gone == {previousHandle_} \cap {g.id : g \in kgem}
       IN /\ kgem' = {g \in kgem : g.id \notin gone}
          /\ released' = released \cup Releases("handle", gone, "rotation")
          /\ owners' = {o \in owners : ~(o.kind = "handle" /\ o.id \in gone)}
    /\ UNCHANGED <<isActive_, mutex_, opens, drmInitialized_, codecCtx_, drmFd_,
                   frameCount_, g_signalReceived, kfbs, refs, subs>>
    /\ UNCHANGED slotVars
    /\ UNCHANGED <<leaked, vres>>
    /\ UNCHANGED usingHwAccel_
    /\ doubles' = doubles \cup DoubleFree("handle", previousHandle_, 0, 0,
                                          {g.id : g \in kgem}, "rotation")
    /\ UNCHANGED sig
    /\ UNCHANGED swDumbHandle_
    /\ UNCHANGED swsCtx_
    /\ UNCHANGED cursorVars
    /\ UNCHANGED NotVideo

\* displayFrame: previousFbId_ = currentFbId_; previousHandle_ = currentHandle_;
\* currentFbId_ = fbId; currentHandle_ = primaryHandle; return true
VidAssign ==
    /\ impl = "ffmpeg"
    /\ ~g_signalReceived
    /\ vw.pc = "assign"
    /\ vw' = [vw EXCEPT !.pc = "done"]
    /\ previousFbId_' = currentFbId_
    /\ previousHandle_' = currentHandle_
    /\ currentFbId_' = vw.fbId
    /\ currentHandle_' = vw.handle
    /\ UNCHANGED <<isActive_, mutex_, opens, drmInitialized_, codecCtx_, drmFd_,
                   frameCount_, g_signalReceived, kfbs, kgem, refs,
                   subs, owners, released>>
    /\ UNCHANGED <<displayedFrame_, previousDisplayedFrame_>>
    /\ UNCHANGED <<leaked, vres>>
    /\ UNCHANGED usingHwAccel_
    /\ UNCHANGED doubles
    /\ UNCHANGED sig
    /\ UNCHANGED swDumbHandle_
    /\ UNCHANGED swsCtx_
    /\ UNCHANGED cursorVars
    /\ UNCHANGED NotVideo

\* what displaySoftwareFrame can meet: the dumb buffer cannot be set up, the
\* swscale context cannot be created, sws_scale or drmModeSetPlane fails, or
\* the frame is shown
SoftwareOutcomes == {"nodumb", "nosws", "fail", "ok"}

\* displayFrame: a frame that is not DRM_PRIME goes to displaySoftwareFrame,
\* which creates the dumb buffer and the swscale context on first use, keeps
\* both, and works on the dumb buffer only
VidDisplaySoftware ==
    /\ impl = "ffmpeg"
    /\ ~g_signalReceived
    /\ vw.pc = "software"
    /\ \E o \in SoftwareOutcomes :
          /\ o = "nodumb" => ~swDumbHandle_
          /\ o = "nosws" => ~swsCtx_
          /\ swDumbHandle_' = (o # "nodumb")
          /\ swsCtx_' = (swsCtx_ \/ o \in {"fail", "ok"})
          /\ vw' = [vw EXCEPT !.pc = IF o = "ok" THEN "done" ELSE "failed"]
    /\ UNCHANGED <<isActive_, mutex_, opens, drmInitialized_, codecCtx_, drmFd_,
                   frameCount_, g_signalReceived, kfbs, kgem, refs,
                   subs, owners, released>>
    /\ UNCHANGED slotVars
    /\ UNCHANGED <<leaked, vres>>
    /\ UNCHANGED usingHwAccel_
    /\ UNCHANGED doubles
    /\ UNCHANGED sig
    /\ UNCHANGED cursorVars
    /\ UNCHANGED NotVideo

\* write: av_frame_unref(frame_); frameCount_++; unlock
VidWriteReturn ==
    /\ impl = "ffmpeg"
    /\ ~g_signalReceived
    /\ vw.pc \in {"done", "failed"}
    /\ vres' = [op |-> "write", ok |-> (vw.pc = "done")]
    /\ vw' = VwIdle
    /\ frameCount_' = frameCount_ + 1
    /\ mutex_' = "none"
    /\ UNCHANGED <<isActive_, opens, drmInitialized_, codecCtx_, drmFd_,
                   g_signalReceived, kfbs, kgem, refs, subs, owners, released,
                   leaked>>
    /\ UNCHANGED slotVars
    /\ UNCHANGED usingHwAccel_
    /\ UNCHANGED doubles
    /\ UNCHANGED sig
    /\ UNCHANGED swDumbHandle_
    /\ UNCHANGED swsCtx_
    /\ UNCHANGED cursorVars
    /\ UNCHANGED NotVideo

\* FFmpegDrmVideoOutput::stop: lock; return if neither active nor holding a
\* decoder; else flush, cleanupDecoder(), cleanupDrm(); close(drmFd_) makes
\* the kernel drop what the file still holds
VidStop ==
    /\ impl = "ffmpeg"
    /\ ~g_signalReceived
    /\ mutex_ = "none"
    /\ IF ~isActive_ /\ ~codecCtx_
       THEN UNCHANGED <<isActive_, codecCtx_, drmInitialized_, drmFd_, kfbs, kgem,
                        refs, owners, released, leaked, usingHwAccel_,
                        doubles, swDumbHandle_, swsCtx_, slotVars,
                        cursorInitialized_, cursorVisible_, cursorDrmFd_,
                        cursorBufferHandle_, kcursor>>
       ELSE /\ isActive_' = FALSE
            /\ Install(CleanupDrm(CleanupDecoder(VState, "stop"), "stop"))
            /\ CleanupCursor
    /\ vres' = [op |-> "stop", ok |-> TRUE]
    /\ UNCHANGED <<mutex_, opens, frameCount_, g_signalReceived, vw, subs>>
    /\ UNCHANGED sig
    /\ UNCHANGED cursorEnv
    /\ UNCHANGED NotVideo

\* signalHandler, first delivery: g_signalReceived.exchange(true) returns false
\* and emergencyCleanup() runs, ending with its OPENAUTO_LOG statement; the
\* handler then raises the signal with its default action, which ends the
\* process, so nothing but a further delivery follows
VidSignal ==
    /\ impl = "ffmpeg"
    /\ ~g_signalReceived
    /\ g_signalReceived' = TRUE
    /\ LET fs == {displayedFrame_, previousDisplayedFrame_}
           hs == IF drmFd_ >= 0
                 THEN {currentHandle_, previousHandle_} \cap {g.id : g \in kgem}
                 ELSE {}
           fb == IF drmFd_ >= 0
                 THEN {currentFbId_, previousFbId_} \cap kfbs
                 ELSE {}
       IN /\ refs' = refs \ fs
          /\ kgem' = {g \in kgem : g.id \notin hs}
          /\ kfbs' = kfbs \ fb
          /\ released' = released \cup FrameReleases(fs, "signal")
                            \cup Releases("fb", fb, "signal")
                            \cup Releases("handle", hs, "signal")
          /\ owners' = {o \in owners : ~(o.kind = "fb" /\ o.id \in fb)
                                       /\ ~(o.kind = "handle" /\ o.id \in hs)}
    /\ displayedFrame_' = NoFrame
    /\ previousDisplayedFrame_' = NoFrame
    /\ IF drmFd_ >= 0
       THEN /\ currentFbId_' = 0
            /\ previousFbId_' = 0
            /\ currentHandle_' = 0
            /\ previousHandle_' = 0
       ELSE UNCHANGED <<currentFbId_, previousFbId_, currentHandle_, previousHandle_>>
    /\ UNCHANGED <<isActive_, mutex_, opens, drmInitialized_, codecCtx_, drmFd_,
                   frameCount_, vw, subs>>
    /\ UNCHANGED <<leaked, vres>>
    /\ UNCHANGED usingHwAccel_
    /\ doubles' = doubles
          \cup DoubleFree("frame", displayedFrame_, previousDisplayedFrame_,
                          NoFrame, refs, "signal")
          \cup (IF drmFd_ >= 0
                THEN DoubleFree("handle", currentHandle_, previousHandle_, 0,
                                {g.id : g \in kgem}, "signal")
                     \cup DoubleFree("fb", currentFbId_, previousFbId_, 0, kfbs,
                                     "signal")
                ELSE {})
    /\ sig' = [sig EXCEPT !.runs = @ + 1, !.logs = @ + 1]
    /\ UNCHANGED swDumbHandle_
    /\ UNCHANGED swsCtx_
    /\ UNCHANGED cursorVars
    /\ UNCHANGED NotVideo


\* signalHandler entered again, for a further signal that arrives before the
\* first invocation has ended the process: g_signalReceived.exchange(true)
\* returns true and the handler returns at once
VidSignalAgain ==
    /\ impl = "ffmpeg"
    /\ g_signalReceived
    /\ UNCHANGED vars

VidInit0 == RingInit

VidNext ==
    \/ VidOpenDisplay
    \/ VidOpenDecoder
    \/ VidInit
    \/ VidWrite
    \/ VidImport
    \/ VidAddFB
    \/ VidSetPlane
    \/ VidFreePrevious
    \/ VidRotateFrame
    \/ VidClone
    \/ VidRmPreviousFb
    \/ VidClosePreviousHandle
    \/ VidAssign
    \/ VidDisplaySoftware
    \/ VidWriteReturn
    \/ VidStop
    \/ VidSignal
    \/ VidSignalAgain

SpecVid == VidInit0 /\ [][VidNext]_vars

(***************************************************************************)
(* The hardware cursor of FFmpegDrmVideoOutput.  Its state is static and   *)
(* guarded by cursorMutex_, which every cursor method holds from entry to  *)
(* return; the input device calls the two static methods at any time.      *)
(***************************************************************************)
\* the state the cursor methods do not touch
NotCursor ==
    <<mutex_, opens, isActive_, frameCount_, vres, drmInitialized_, codecCtx_,
      drmFd_, g_signalReceived, vw, kfbs, kgem, refs, subs, owners, released,
      leaked, slotVars, usingHwAccel_, doubles, sig, swDumbHandle_, swsCtx_,
      cursorEnv, NotVideo>>

\* a call of initCursor()
CursorInit ==
    /\ impl = "ffmpeg"
    /\ ~g_signalReceived
    /\ \E o \in CursorOutcomes : InitCursor(o)
    /\ UNCHANGED NotCursor

\* FFmpegDrmVideoOutput::updateCursorPosition(x, y)
CursorUpdatePosition ==
    /\ impl = "ffmpeg"
    /\ ~g_signalReceived
    /\ \E x \in CursorXY, y \in CursorXY :
          IF ~cursorInitialized_ \/ cursorDrmFd_ < 0
          THEN UNCHANGED <<cursorVisible_, kcursor>>
          ELSE \E ok \in SetCursorResults :
                  LET show == ~cursorVisible_ /\ ok
                  IN /\ cursorVisible_' = (cursorVisible_ \/ show)
                     /\ kcursor' = [kcursor EXCEPT !.shown = @ \/ show,
                                                   !.x = x, !.y = y]
    /\ UNCHANGED <<cursorInitialized_, cursorDrmFd_, cursorBufferHandle_>>
    /\ UNCHANGED NotCursor

\* FFmpegDrmVideoOutput::setCursorVisible(visible)
CursorSetVisible ==
    /\ impl = "ffmpeg"
    /\ ~g_signalReceived
    /\ \E visible \in BOOLEAN :
          IF ~cursorInitialized_ \/ cursorDrmFd_ < 0
          THEN UNCHANGED <<cursorVisible_, kcursor>>
          ELSE IF visible /\ ~cursorVisible_
          THEN \E ok \in SetCursorResults :
                  /\ cursorVisible_' = ok
                  /\ kcursor' = [kcursor EXCEPT !.shown = @ \/ ok]
          ELSE IF ~visible /\ cursorVisible_
          THEN /\ cursorVisible_' = FALSE
               /\ kcursor' = [kcursor EXCEPT !.shown = FALSE]
          ELSE UNCHANGED <<cursorVisible_, kcursor>>
    /\ UNCHANGED <<cursorInitialized_, cursorDrmFd_, cursorBufferHandle_>>
    /\ UNCHANGED NotCursor

\* a run on a device whose cursor calls may fail
CursorInit0 ==
    /\ head_ = 0
    /\ tail_ = 0
    /\ buffer_ = [i \in 0..(Capacity - 1) |-> 0]
    /\ w = WIdle
    /\ r = RIdle
    /\ written = <<>>
    /\ readOut = <<>>
    /\ clears = 0
    /\ isStopping_ = FALSE
    /\ mutex_ = "none"
    /\ stream = [open |-> FALSE, running |-> FALSE]
    /\ channelCount_ = 2
    /\ rtSampleRate_ = DefaultRate
    /\ devRates = {DefaultRate}
    /\ accepted = <<>>
    /\ ctl = [pc |-> "idle"]
    /\ cb = CbIdle
    /\ opens = 0
    /\ isActive_ = FALSE
    /\ rtAudio_ = FALSE
    /\ readPromise_ = 0
    /\ promises = <<>>
    /\ app = [pc |-> "idle", p |-> 0]
    /\ VideoConstructed
    /\ cursorEnv = "any"
    /\ PlayerConstructed
    /\ impl = "ffmpeg"

CursorNext ==
    \/ VidOpenDisplay
    \/ VidOpenDecoder
    \/ VidInit
    \/ VidStop
    \/ CursorInit
    \/ CursorSetVisible
    \/ CursorUpdatePosition

SpecCursor == CursorInit0 /\ [][CursorNext]_vars

(***************************************************************************)
(* KmssinkVideoOutput.  open(), init(), write() and stop() each hold       *)
(* mutex_ from entry to return, so each call is one step.                  *)
(***************************************************************************)
\* the rest of the state, which KmssinkVideoOutput does not touch
NotKms ==
    <<head_, tail_, buffer_, w, r, written, readOut, clears, isStopping_,
      stream, channelCount_, rtSampleRate_, devRates, accepted, ctl, cb,
      rtAudio_, readPromise_, promises, app,
      displayedFrame_, previousDisplayedFrame_, currentFbId_, previousFbId_,
      currentHandle_, previousHandle_, drmInitialized_, codecCtx_, drmFd_,
      g_signalReceived, vw, kfbs, kgem, refs, subs, owners, released, leaked, usingHwAccel_, doubles, sig, swDumbHandle_, swsCtx_,
      cursorInitialized_, cursorVisible_, cursorDrmFd_, cursorBufferHandle_, kcursor, cursorEnv,
      impl,
      playlist_, playlistIndex_, repeatMode_, playing_, paused_, stopRequested_,
      currentFile_, decodeThread_, sampleRate_, bitDepth_, nativeOffload_, worker,
      pm, pq, emitted, plays, crashed, track, dac>>

\* "gstinit": gst_init_check failed; "nopipeline": gst_pipeline_new returned
\* null; "element": an element could not be made or linked; "configure":
\* configureAppsrc or configureKmssink returned false
KmsOpenOutcomes == {"gstinit", "nopipeline", "element", "configure", "ok"}

\* KmssinkVideoOutput::open: gst_init_check, createPipeline(),
\* configureAppsrc(), configureKmssink(); a failure after gst_init_check runs
\* releasePipeline().  createPipeline() overwrites pipeline_, so a pipeline
\* that was set stays alive and nothing names it any more
KmsOpen ==
    /\ impl = "kmssink"
    /\ mutex_ = "none"
    /\ opens < MaxOpens
    /\ opens' = opens + 1
    /\ \E o \in KmsOpenOutcomes :
          /\ (o = "gstinit") => ~gstInitialized
          /\ IF o = "gstinit"
             THEN UNCHANGED <<gstInitialized, pipeline_, appsrc_, pipelines>>
             ELSE /\ gstInitialized' = TRUE
                  /\ pipeline_' = (o = "ok")
                  /\ appsrc_' = (o = "ok")
                  /\ pipelines' = IF o = "ok" THEN pipelines + 1 ELSE pipelines
          /\ vres' = [op |-> "open", ok |-> (o = "ok")]
    /\ UNCHANGED <<isActive_, mutex_, frameCount_, pushed>>
    /\ UNCHANGED NotKms

\* KmssinkVideoOutput::init: the pipeline_ check, the isActive_ check,
\* gst_element_set_state(pipeline_, GST_STATE_PLAYING)
KmsInit ==
    /\ impl = "kmssink"
    /\ mutex_ = "none"
    /\ IF ~pipeline_
       THEN /\ vres' = [op |-> "init", ok |-> FALSE]
            /\ UNCHANGED <<isActive_, frameCount_>>
       ELSE IF isActive_
       THEN /\ vres' = [op |-> "init", ok |-> TRUE]
            /\ UNCHANGED <<isActive_, frameCount_>>
       ELSE \E playing \in Outcomes :
               IF playing = "error"
               THEN /\ vres' = [op |-> "init", ok |-> FALSE]
                    /\ UNCHANGED <<isActive_, frameCount_>>
               ELSE /\ isActive_' = TRUE
                    /\ frameCount_' = 0
                    /\ vres' = [op |-> "init", ok |-> TRUE]
    /\ UNCHANGED <<mutex_, opens, pipeline_, appsrc_, gstInitialized, pipelines,
                   pushed>>
    /\ UNCHANGED NotKms

\* KmssinkVideoOutput::write: the isActive_ / appsrc_ check, the empty-buffer
\* check, gst_buffer_new_allocate and gst_buffer_map, gst_app_src_push_buffer,
\* frameCount_++
KmsWrite ==
    /\ impl = "kmssink"
    /\ mutex_ = "none"
    /\ frameCount_ < MaxFrames
    /\ IF ~isActive_ \/ ~appsrc_
       THEN /\ vres' = [op |-> "write", ok |-> FALSE]
            /\ UNCHANGED <<frameCount_, pushed>>
       ELSE \E size \in {0, 1}, buffer \in Outcomes, flow \in Outcomes :
               IF size = 0 \/ buffer = "error" \/ flow = "error"
               THEN /\ vres' = [op |-> "write", ok |-> FALSE]
                    /\ UNCHANGED <<frameCount_, pushed>>
               ELSE /\ pushed' = pushed + 1
                    /\ frameCount_' = frameCount_ + 1
                    /\ vres' = [op |-> "write", ok |-> TRUE]
    /\ UNCHANGED <<isActive_, mutex_, opens, pipeline_, appsrc_, gstInitialized,
                   pipelines>>
    /\ UNCHANGED NotKms

\* KmssinkVideoOutput::renderFrame: the check of the data, write() as a
\* whole, and the value returned, which is isActive_.load()
KmsRenderFrame ==
    /\ impl = "kmssink"
    /\ mutex_ = "none"
    /\ frameCount_ < MaxFrames
    /\ \E valid \in BOOLEAN :
          IF ~valid
          THEN /\ vres' = [op |-> "renderFrame", ok |-> FALSE]
               /\ UNCHANGED <<frameCount_, pushed>>
          ELSE /\ vres' = [op |-> "renderFrame", ok |-> isActive_]
               /\ IF ~isActive_ \/ ~appsrc_
                  THEN UNCHANGED <<frameCount_, pushed>>
                  ELSE \E buffer \in Outcomes, flow \in Outcomes :
                          IF buffer = "error" \/ flow = "error"
                          THEN UNCHANGED <<frameCount_, pushed>>
                          ELSE /\ pushed' = pushed + 1
                               /\ frameCount_' = frameCount_ + 1
    /\ UNCHANGED <<isActive_, mutex_, opens, pipeline_, appsrc_, gstInitialized,
                   pipelines>>
    /\ UNCHANGED NotKms

\* KmssinkVideoOutput::stop: the already-stopped check, isActive_ = false,
\* end of stream, releasePipeline()
KmsStop ==
    /\ impl = "kmssink"
    /\ mutex_ = "none"
    /\ IF ~isActive_ /\ ~pipeline_
       THEN UNCHANGED <<isActive_, pipeline_, appsrc_, pipelines>>
       ELSE /\ isActive_' = FALSE
            /\ pipelines' = IF pipeline_ THEN pipelines - 1 ELSE pipelines
            /\ pipeline_' = FALSE
            /\ appsrc_' = FALSE
    /\ vres' = [op |-> "stop", ok |-> TRUE]
    /\ UNCHANGED <<mutex_, opens, frameCount_, gstInitialized, pushed>>
    /\ UNCHANGED NotKms

KmsNext ==
    \/ KmsOpen
    \/ KmsInit
    \/ KmsWrite
    \/ KmsRenderFrame
    \/ KmsStop

\* a video output of either kind, after construction
VideoOutInit ==
    /\ head_ = 0
    /\ tail_ = 0
    /\ buffer_ = [i \in 0..(Capacity - 1) |-> 0]
    /\ w = WIdle
    /\ r = RIdle
    /\ written = <<>>
    /\ readOut = <<>>
    /\ clears = 0
    /\ isStopping_ = FALSE
    /\ mutex_ = "none"
    /\ stream = [open |-> FALSE, running |-> FALSE]
    /\ channelCount_ = 2
    /\ rtSampleRate_ = DefaultRate
    /\ devRates = {DefaultRate}
    /\ accepted = <<>>
    /\ ctl = [pc |-> "idle"]
    /\ cb = CbIdle
    /\ opens = 0
    /\ isActive_ = FALSE
    /\ rtAudio_ = FALSE
    /\ readPromise_ = 0
    /\ promises = <<>>
    /\ app = [pc |-> "idle", p |-> 0]
    /\ VideoConstructed
    /\ cursorEnv = "ok"
    /\ PlayerConstructed
    /\ impl \in {"ffmpeg", "kmssink"}

VideoOutNext ==
    \/ VidNext
    \/ KmsNext

SpecVideoOut == VideoOutInit /\ [][VideoOutNext]_vars

(***************************************************************************)
(* AudioPlayer.  The main thread runs the slots (playIndex, nextTrack,     *)
(* previousTrack, stop, ...) and the queued invocations one after another; *)
(* the decode thread runs decodeLoop.  The playlist mutex guards short     *)
(* sections that no other step can be inside of, so they are atomic here.  *)
(***************************************************************************)
\* everything but the AudioPlayer
NotPlayer == <<ringVars, audioVars, inputVars, videoVars>>

\* source sample rates of the files, and the ALSA devices
SrcRates == {44100, 48000, 96000, 192000, 352800, 2822400}
RawBits == {16, 24}
Dacs ==
    {[rates |-> {44100, 48000}, formats |-> {"S16_LE"}],
     [rates |-> {48000}, formats |-> {"S16_LE", "S24_3LE"}],
     [rates |-> {44100, 48000, 88200, 96000}, formats |-> {"S16_LE", "S32_LE"}],
     [rates |-> {96000, 192000}, formats |-> {"S32_LE"}],
     [rates |-> {44100, 48000, 88200, 96000, 176400, 192000},
      formats |-> {"S16_LE", "S24_3LE", "S32_LE"}],
     [rates |-> {48000, 96000, 192000, 384000}, formats |-> {"S16_LE", "S32_LE"}],
     [rates |-> {32000}, formats |-> {"S16_LE"}],
     [rates |-> {32000, 64000}, formats |-> {"S16_LE"}]}

\* snd_pcm_hw_params_get_rate_min / get_rate_max
RateMin(rates) == CHOOSE x \in rates : \A y \in rates : x <= y
RateMax(rates) == CHOOSE x \in rates : \A y \in rates : x >= y
\* static const unsigned int standardRates[]
standardRates == <<192000, 176400, 96000, 88200, 48000, 44100>>

\* an offload decision that passes every source rate through
OffloadAlways(srcSampleRate, dacMinRate, dacMaxRate) ==
    [nativeOffload |-> TRUE,
     outSampleRate |-> IF srcSampleRate > 192000 THEN 192000 ELSE srcSampleRate]

\* an offload decision that takes the lowest standard rate of the DAC's range
OffloadLowest(srcSampleRate, dacMinRate, dacMaxRate) ==
    LET capped == IF srcSampleRate > 192000 THEN 192000 ELSE srcSampleRate
        fit == {i \in 1..Len(standardRates) :
                   standardRates[i] <= dacMaxRate /\ standardRates[i] >= dacMinRate}
    IN IF capped > dacMaxRate
       THEN [nativeOffload |-> FALSE,
             outSampleRate |-> IF fit = {} THEN 44100
                               ELSE standardRates[CHOOSE i \in fit :
                                                     \A j \in fit : i >= j]]
       ELSE [nativeOffload |-> TRUE, outSampleRate |-> capped]

\* decodeLoop, the offload decision: the source rate capped at 192000 goes
\* out unchanged if the DAC's maximum allows it; else the first standard
\* rate within the DAC's range, 44100 if there is none
OffloadDecision(srcSampleRate, dacMinRate, dacMaxRate) ==
    LET capped == IF srcSampleRate > 192000 THEN 192000 ELSE srcSampleRate
        fit == {i \in 1..Len(standardRates) :
                   standardRates[i] <= dacMaxRate /\ standardRates[i] >= dacMinRate}
    IN IF capped > dacMaxRate
       THEN [nativeOffload |-> FALSE,
             outSampleRate |-> IF fit = {} THEN 44100
                               ELSE standardRates[CHOOSE i \in fit :
                                                     \A j \in fit : i <= j]]
       ELSE [nativeOffload |-> TRUE, outSampleRate |-> capped]

\* decodeLoop, the format probe: bytes per output sample
FormatProbe(bits, outSampleRate, formats) ==
    IF bits > 16 \/ outSampleRate > 48000
    THEN IF "S32_LE" \in formats THEN 4
         ELSE IF "S24_3LE" \in formats THEN 4
         ELSE 2
    ELSE 2

\* decodeLoop: avformat_open_input, find the stream, open the decoder,
\* snd_pcm_open; each failure ends the thread after cleanup()
WorkerOpen ==
    /\ ~crashed
    /\ worker.pc = "open"
    /\ \E ok \in BOOLEAN :
          worker' = [worker EXCEPT !.pc = IF ok THEN "probe" ELSE "done"]
    /\ UNCHANGED <<playlist_, playlistIndex_, repeatMode_, playing_, paused_,
                   stopRequested_, currentFile_, decodeThread_, sampleRate_,
                   bitDepth_, nativeOffload_, pm, pq, emitted, plays, crashed,
                   track, dac>>
    /\ UNCHANGED NotPlayer

\* decodeLoop: the DAC capability probe, the offload decision and the format
\* probe
WorkerProbe ==
    /\ ~crashed
    /\ worker.pc = "probe"
    /\ LET d == OffloadDecision(track.rate, RateMin(dac.rates), RateMax(dac.rates))
       IN worker' = [pc |-> "configure",
                     outSampleRate |-> d.outSampleRate,
                     nativeOffload |-> d.nativeOffload,
                     outBytesPerSample |->
                         FormatProbe(track.bits, d.outSampleRate, dac.formats)]
    /\ UNCHANGED <<playlist_, playlistIndex_, repeatMode_, playing_, paused_,
                   stopRequested_, currentFile_, decodeThread_, sampleRate_,
                   bitDepth_, nativeOffload_, pm, pq, emitted, plays, crashed,
                   track, dac>>
    /\ UNCHANGED NotPlayer

\* decodeLoop: snd_pcm_hw_params_set_rate_near and the rate it accepted,
\* snd_pcm_hw_params, the result stored for the UI, the resampler set up
WorkerConfigure ==
    /\ ~crashed
    /\ worker.pc = "configure"
    /\ \E res \in {"nohw", "noswr", "ok"} :
          LET alsaRate == SetRateNear(dac.rates, worker.outSampleRate)
          IN /\ worker' = [worker EXCEPT !.pc = IF res = "ok" THEN "loop" ELSE "done",
                                         !.outSampleRate = alsaRate]
             /\ IF res = "nohw"
                THEN UNCHANGED <<sampleRate_, bitDepth_, nativeOffload_>>
                ELSE /\ sampleRate_' = alsaRate
                     /\ bitDepth_' = worker.outBytesPerSample * 8
                     /\ nativeOffload_' = worker.nativeOffload
    /\ UNCHANGED <<playlist_, playlistIndex_, repeatMode_, playing_, paused_,
                   stopRequested_, currentFile_, decodeThread_, pm, pq, emitted,
                   plays, crashed, track, dac>>
    /\ UNCHANGED NotPlayer

\* decodeLoop: while (!stopRequested_), the pause check, av_read_frame, the
\* decoder, up to snd_pcm_writei
WorkerLoop ==
    /\ ~crashed
    /\ worker.pc = "loop"
    /\ stopRequested_ \/ ~paused_
    /\ IF stopRequested_
       THEN worker' = [worker EXCEPT !.pc = "exit"]
       ELSE \E eof \in BOOLEAN :
               worker' = [worker EXCEPT !.pc = IF eof THEN "exit" ELSE "write"]
    /\ UNCHANGED <<playlist_, playlistIndex_, repeatMode_, playing_, paused_,
                   stopRequested_, currentFile_, decodeThread_, sampleRate_,
                   bitDepth_, nativeOffload_, pm, pq, emitted, plays, crashed,
                   track, dac>>
    /\ UNCHANGED NotPlayer

\* decodeLoop: snd_pcm_writei returns
WorkerWrite ==
    /\ ~crashed
    /\ worker.pc = "write"
    /\ worker' = [worker EXCEPT !.pc = "loop"]
    /\ UNCHANGED <<playlist_, playlistIndex_, repeatMode_, playing_, paused_,
                   stopRequested_, currentFile_, decodeThread_, sampleRate_,
                   bitDepth_, nativeOffload_, pm, pq, emitted, plays, crashed,
                   track, dac>>
    /\ UNCHANGED NotPlayer

\* decodeLoop, after the loop: cleanup(); if (!stopRequested_) onTrackFinished()
WorkerExit ==
    /\ ~crashed
    /\ worker.pc = "exit"
    /\ worker' = [worker EXCEPT !.pc = IF stopRequested_ THEN "done" ELSE "finished"]
    /\ UNCHANGED <<playlist_, playlistIndex_, repeatMode_, playing_, paused_,
                   stopRequested_, currentFile_, decodeThread_, sampleRate_,
                   bitDepth_, nativeOffload_, pm, pq, emitted, plays, crashed,
                   track, dac>>
    /\ UNCHANGED NotPlayer

\* AudioPlayer::onTrackFinished, on the decode thread: playing_ = false, emit
\* trackFinished(), and play(file) or nextTrack() queued to the main thread;
\* the thread then ends
\* (index, mode and play record which track ended, under which repeat mode,
\* and which call of play() had started it)
WorkerTrackFinished ==
    /\ ~crashed
    /\ worker.pc = "finished"
    /\ playing_' = FALSE
    /\ emitted' = emitted + 1
    /\ pq' = IF repeatMode_ = 2
             THEN IF playlistIndex_ >= 0 /\ playlistIndex_ < playlist_
                  THEN Append(pq, [op |-> "play", file |-> playlistIndex_,
                                   index |-> playlistIndex_, mode |-> repeatMode_,
                                   play |-> plays])
                  ELSE pq
             ELSE Append(pq, [op |-> "nextTrack", file |-> -1,
                              index |-> playlistIndex_, mode |-> repeatMode_,
                              play |-> plays])
    /\ worker' = [worker EXCEPT !.pc = "done"]
    /\ UNCHANGED <<playlist_, playlistIndex_, repeatMode_, paused_,
                   stopRequested_, currentFile_, decodeThread_, sampleRate_,
                   bitDepth_, nativeOffload_, pm, plays, crashed, track, dac>>
    /\ UNCHANGED NotPlayer

\* stopDecodeThread, up to the wait: stopRequested_ = true, and whether the
\* thread exists and isRunning(); `then` is what the caller does afterwards
BeginStopDecodeThread(then, file) ==
    /\ stopRequested_' = TRUE
    /\ pm' = [pc |-> IF decodeThread_ /\ worker.pc # "done" THEN "wait" ELSE "delete",
              then |-> then, file |-> file]

\* AudioPlayer::play(file), up to the wait in stopDecodeThread
BeginPlay(file) ==
    /\ plays < MaxPlays
    /\ plays' = plays + 1
    /\ BeginStopDecodeThread("start", file)

\* a nextTrack that stops at the end of the playlist in every repeat mode
NextTrackNoWrap ==
    IF playlist_ = 0
    THEN UNCHANGED <<playlistIndex_, stopRequested_, pm, plays, crashed>>
    ELSE IF playlistIndex_ + 1 >= playlist_
    THEN /\ playlistIndex_' = playlist_ - 1
         /\ BeginStopDecodeThread("stop", -1)
         /\ UNCHANGED <<plays, crashed>>
    ELSE /\ playlistIndex_' = playlistIndex_ + 1
         /\ BeginPlay(playlistIndex_ + 1)
         /\ UNCHANGED crashed

\* AudioPlayer::nextTrack
NextTrack ==
    IF playlist_ = 0
    THEN UNCHANGED <<playlistIndex_, stopRequested_, pm, plays, crashed>>
    ELSE IF repeatMode_ = 2
    THEN IF playlistIndex_ < 0
         THEN \* playlist_.at(-1)
              /\ crashed' = TRUE
              /\ UNCHANGED <<playlistIndex_, stopRequested_, pm, plays>>
         ELSE /\ BeginPlay(playlistIndex_)
              /\ UNCHANGED <<playlistIndex_, crashed>>
    ELSE IF playlistIndex_ + 1 >= playlist_
    THEN IF repeatMode_ = 1
         THEN /\ playlistIndex_' = 0
              /\ BeginPlay(0)
              /\ UNCHANGED crashed
         ELSE /\ playlistIndex_' = playlist_ - 1
              /\ BeginStopDecodeThread("stop", -1)
              /\ UNCHANGED <<plays, crashed>>
    ELSE /\ playlistIndex_' = playlistIndex_ + 1
         /\ BeginPlay(playlistIndex_ + 1)
         /\ UNCHANGED crashed

\* AudioPlayer::setPlaylist, before anything is played
PlayerSetPlaylist ==
    /\ ~crashed
    /\ pm.pc = "idle"
    /\ playlist_ = 0 /\ ~decodeThread_
    /\ \E n \in 1..MaxTracks : playlist_' = n
    /\ playlistIndex_' = -1
    /\ UNCHANGED <<repeatMode_, playing_, paused_, stopRequested_, currentFile_,
                   decodeThread_, sampleRate_, bitDepth_, nativeOffload_, worker,
                   pm, pq, emitted, plays, crashed, track, dac>>
    /\ UNCHANGED NotPlayer

\* AudioPlayer::playIndex
PlayerPlayIndex ==
    /\ ~crashed
    /\ pm.pc = "idle"
    /\ \E index \in 0..(playlist_ - 1) :
          /\ playlistIndex_' = index
          /\ BeginPlay(index)
    /\ UNCHANGED <<playlist_, repeatMode_, playing_, paused_, currentFile_,
                   decodeThread_, sampleRate_, bitDepth_, nativeOffload_, worker,
                   pq, emitted, crashed, track, dac>>
    /\ UNCHANGED NotPlayer

\* AudioPlayer::nextTrack called by the user
PlayerNextTrack ==
    /\ ~crashed
    /\ pm.pc = "idle"
    /\ NextTrack
    /\ UNCHANGED <<playlist_, repeatMode_, playing_, paused_, currentFile_,
                   decodeThread_, sampleRate_, bitDepth_, nativeOffload_, worker,
                   pq, emitted, track, dac>>
    /\ UNCHANGED NotPlayer

\* AudioPlayer::previousTrack; position_ > 3000 is the caller's `late`
PlayerPreviousTrack ==
    /\ ~crashed
    /\ pm.pc = "idle"
    /\ playlist_ > 0
    /\ \E late \in BOOLEAN :
          LET index == IF late /\ playlistIndex_ >= 0 THEN playlistIndex_
                       ELSE IF playlistIndex_ - 1 >= 0 THEN playlistIndex_ - 1
                       ELSE IF repeatMode_ = 1 THEN playlist_ - 1
                       ELSE 0
          IN /\ playlistIndex_' = index
             /\ BeginPlay(index)
    /\ UNCHANGED <<playlist_, repeatMode_, playing_, paused_, currentFile_,
                   decodeThread_, sampleRate_, bitDepth_, nativeOffload_, worker,
                   pq, emitted, crashed, track, dac>>
    /\ UNCHANGED NotPlayer

\* AudioPlayer::stop, up to the wait in stopDecodeThread
PlayerStop ==
    /\ ~crashed
    /\ pm.pc = "idle"
    /\ BeginStopDecodeThread("stop", -1)
    /\ UNCHANGED <<playlist_, playlistIndex_, repeatMode_, playing_, paused_,
                   currentFile_, decodeThread_, sampleRate_, bitDepth_,
                   nativeOffload_, worker, pq, emitted, plays, crashed, track, dac>>
    /\ UNCHANGED NotPlayer

\* AudioPlayer::setRepeatMode
PlayerSetRepeatMode ==
    /\ ~crashed
    /\ pm.pc = "idle"
    /\ \E mode \in 0..2 : mode # repeatMode_ /\ repeatMode_' = mode
    /\ UNCHANGED <<playlist_, playlistIndex_, playing_, paused_, stopRequested_,
                   currentFile_, decodeThread_, sampleRate_, bitDepth_,
                   nativeOffload_, worker, pm, pq, emitted, plays, crashed,
                   track, dac>>
    /\ UNCHANGED NotPlayer

\* AudioPlayer::pause and AudioPlayer::resume
PlayerPauseResume ==
    /\ ~crashed
    /\ pm.pc = "idle"
    /\ playing_
    /\ paused_' = ~paused_
    /\ UNCHANGED <<playlist_, playlistIndex_, repeatMode_, playing_, stopRequested_,
                   currentFile_, decodeThread_, sampleRate_, bitDepth_,
                   nativeOffload_, worker, pm, pq, emitted, plays, crashed,
                   track, dac>>
    /\ UNCHANGED NotPlayer

\* AudioPlayer::setPlaylist at any time: playlist_ = files (an empty list
\* too); playlistIndex_ = -1
PlayerReplacePlaylist ==
    /\ ~crashed
    /\ pm.pc = "idle"
    /\ \E n \in 0..MaxTracks : playlist_' = n
    /\ playlistIndex_' = -1
    /\ UNCHANGED <<repeatMode_, playing_, paused_, stopRequested_, currentFile_,
                   decodeThread_, sampleRate_, bitDepth_, nativeOffload_, worker,
                   pm, pq, emitted, plays, crashed, track, dac>>
    /\ UNCHANGED NotPlayer

\* AudioPlayer::addToPlaylist: playlist_.append(file)
PlayerAddToPlaylist ==
    /\ ~crashed
    /\ pm.pc = "idle"
    /\ playlist_ < MaxTracks
    /\ playlist_' = playlist_ + 1
    /\ UNCHANGED <<playlistIndex_, repeatMode_, playing_, paused_, stopRequested_,
                   currentFile_, decodeThread_, sampleRate_, bitDepth_,
                   nativeOffload_, worker, pm, pq, emitted, plays, crashed,
                   track, dac>>
    /\ UNCHANGED NotPlayer

\* AudioPlayer::clearPlaylist: playlist_.clear(); playlistIndex_ = -1
PlayerClearPlaylist ==
    /\ ~crashed
    /\ pm.pc = "idle"
    /\ playlist_' = 0
    /\ playlistIndex_' = -1
    /\ UNCHANGED <<repeatMode_, playing_, paused_, stopRequested_, currentFile_,
                   decodeThread_, sampleRate_, bitDepth_, nativeOffload_, worker,
                   pm, pq, emitted, plays, crashed, track, dac>>
    /\ UNCHANGED NotPlayer

\* AudioPlayer::togglePlayPause: resume() or pause() while playing, else
\* play(playlist_.at(playlistIndex_)) if the index is within the playlist
PlayerTogglePlayPause ==
    /\ ~crashed
    /\ pm.pc = "idle"
    /\ IF playing_
       THEN /\ paused_' = ~paused_
            /\ UNCHANGED <<stopRequested_, pm, plays>>
       ELSE IF playlistIndex_ >= 0 /\ playlistIndex_ < playlist_
       THEN /\ BeginPlay(playlistIndex_)
            /\ UNCHANGED paused_
       ELSE UNCHANGED <<paused_, stopRequested_, pm, plays>>
    /\ UNCHANGED <<playlist_, playlistIndex_, repeatMode_, playing_, currentFile_,
                   decodeThread_, sampleRate_, bitDepth_, nativeOffload_, worker,
                   pq, emitted, crashed, track, dac>>
    /\ UNCHANGED NotPlayer

\* the main thread's event loop runs the invocation onTrackFinished queued
PlayerDispatch ==
    /\ ~crashed
    /\ pm.pc = "idle"
    /\ pq # <<>>
    /\ pq' = Tail(pq)
    /\ IF Head(pq).op = "play"
       THEN /\ BeginPlay(Head(pq).file)
            /\ UNCHANGED <<playlistIndex_, crashed>>
       ELSE NextTrack
    /\ UNCHANGED <<playlist_, repeatMode_, playing_, paused_, currentFile_,
                   decodeThread_, sampleRate_, bitDepth_, nativeOffload_, worker,
                   emitted, track, dac>>
    /\ UNCHANGED NotPlayer

\* stopDecodeThread: decodeThread_->wait(5000) returns because the thread
\* has finished
PlayerWaitJoined ==
    /\ ~crashed
    /\ pm.pc = "wait"
    /\ worker.pc = "done"
    /\ pm' = [pm EXCEPT !.pc = "delete"]
    /\ UNCHANGED <<playlist_, playlistIndex_, repeatMode_, playing_, paused_,
                   stopRequested_, currentFile_, decodeThread_, sampleRate_,
                   bitDepth_, nativeOffload_, worker, pq, emitted, plays, crashed,
                   track, dac>>
    /\ UNCHANGED NotPlayer

\* stopDecodeThread: wait(5000) times out with the thread inside a blocking
\* call, and decodeThread_->terminate() is called, which ends the thread now
\* or some time later
PlayerWaitTimeout ==
    /\ ~crashed
    /\ pm.pc = "wait"
    /\ worker.pc \in {"open", "write"}
    /\ pm' = [pm EXCEPT !.pc = "delete"]
    /\ \E ended \in BOOLEAN :
          worker' = IF ended THEN [worker EXCEPT !.pc = "done"] ELSE worker
    /\ UNCHANGED <<playlist_, playlistIndex_, repeatMode_, playing_, paused_,
                   stopRequested_, currentFile_, decodeThread_, sampleRate_,
                   bitDepth_, nativeOffload_, pq, emitted, plays, crashed,
                   track, dac>>
    /\ UNCHANGED NotPlayer

\* stopDecodeThread: delete decodeThread_ (a QThread that is still running
\* aborts the process when destroyed), decodeThread_ = nullptr; then the rest
\* of play(), which is startDecodeThread(), or the rest of stop()
PlayerDelete ==
    /\ ~crashed
    /\ pm.pc = "delete"
    /\ IF decodeThread_ /\ worker.pc # "done"
       THEN /\ crashed' = TRUE
            /\ UNCHANGED <<playing_, paused_, stopRequested_, currentFile_,
                           decodeThread_, worker, pm>>
       ELSE /\ pm' = PmIdle
            /\ UNCHANGED crashed
            /\ IF pm.then = "start"
               THEN /\ currentFile_' = pm.file
                    /\ stopRequested_' = FALSE
                    /\ playing_' = TRUE
                    /\ paused_' = FALSE
                    /\ decodeThread_' = TRUE
                    /\ worker' = [WorkerNone EXCEPT !.pc = "open"]
               ELSE /\ playing_' = FALSE
                    /\ paused_' = FALSE
                    /\ decodeThread_' = FALSE
                    /\ worker' = WorkerNone
                    /\ UNCHANGED <<currentFile_, stopRequested_>>
    /\ UNCHANGED <<playlist_, playlistIndex_, repeatMode_, sampleRate_, bitDepth_,
                   nativeOffload_, pq, emitted, plays, track, dac>>
    /\ UNCHANGED NotPlayer

PlayerInit == RingInit

PlayerNext ==
    \/ PlayerSetPlaylist
    \/ PlayerPlayIndex
    \/ PlayerNextTrack
    \/ PlayerPreviousTrack
    \/ PlayerStop
    \/ PlayerSetRepeatMode
    \/ PlayerPauseResume
    \/ PlayerDispatch
    \/ PlayerWaitJoined
    \/ PlayerWaitTimeout
    \/ PlayerDelete
    \/ WorkerOpen
    \/ WorkerProbe
    \/ WorkerConfigure
    \/ WorkerLoop
    \/ WorkerWrite
    \/ WorkerExit
    \/ WorkerTrackFinished

SpecPlayer == PlayerInit /\ [][PlayerNext]_vars

\* the player with the playlist edited while it plays
PlaylistNext ==
    \/ PlayerNext
    \/ PlayerReplacePlaylist
    \/ PlayerAddToPlaylist
    \/ PlayerClearPlaylist
    \/ PlayerTogglePlayPause

SpecPlaylist == PlayerInit /\ [][PlaylistNext]_vars

\* the negotiation alone: a decode thread that has opened its file and the
\* ALSA device, for every file and every device
NegotiateInit ==
    /\ head_ = 0
    /\ tail_ = 0
    /\ buffer_ = [i \in 0..(Capacity - 1) |-> 0]
    /\ w = WIdle
    /\ r = RIdle
    /\ written = <<>>
    /\ readOut = <<>>
    /\ clears = 0
    /\ isStopping_ = FALSE
    /\ mutex_ = "none"
    /\ stream = [open |-> FALSE, running |-> FALSE]
    /\ channelCount_ = 2
    /\ rtSampleRate_ = DefaultRate
    /\ devRates = {DefaultRate}
    /\ accepted = <<>>
    /\ ctl = [pc |-> "idle"]
    /\ cb = CbIdle
    /\ opens = 0
    /\ isActive_ = FALSE
    /\ rtAudio_ = FALSE
    /\ readPromise_ = 0
    /\ promises = <<>>
    /\ app = [pc |-> "idle", p |-> 0]
    /\ VideoConstructed
    /\ cursorEnv = "ok"
    /\ impl = "ffmpeg"
    /\ playlist_ = 1
    /\ playlistIndex_ = 0
    /\ repeatMode_ = 0
    /\ playing_ = TRUE
    /\ paused_ = FALSE
    /\ stopRequested_ = FALSE
    /\ currentFile_ = 0
    /\ decodeThread_ = TRUE
    /\ sampleRate_ = 0
    /\ bitDepth_ = 16
    /\ nativeOffload_ = FALSE
    /\ worker = [WorkerNone EXCEPT !.pc = "probe"]
    /\ pm = PmIdle
    /\ pq = <<>>
    /\ emitted = 0
    /\ plays = 1
    /\ crashed = FALSE
    /\ track \in [rate : SrcRates, bits : RawBits]
    /\ dac \in Dacs

NegotiateNext ==
    \/ WorkerProbe
    \/ WorkerConfigure

SpecNegotiate == NegotiateInit /\ [][NegotiateNext]_vars

(***************************************************************************)
(* Properties of the ring buffer.                                          *)
(***************************************************************************)
\* a step of the producer, a step of the consumer
WriterStep == w' # w
ReaderStep == r' # r

\* C1: with one producer calling write and one consumer calling read, under
\* every interleaving of their index loads, byte copies and index stores, the
\* bytes returned by read are a prefix of the bytes accepted by write.
C1_FifoPrefix == IsPrefix(readOut, written)

\* C1 witness: a read and a write copy bytes at the same time after the
\* indices have gone once around the buffer and data has been delivered.
C1_Witness ==
    /\ w.pc \in {"copy1", "copy2"}
    /\ r.pc \in {"copy1", "copy2"}
    /\ Len(readOut) > Capacity
    /\ IsPrefix(readOut, written)

\* C2: in every reachable state, after any sequence of write, read and clear,
\* available() + space() = Capacity - 1 on the same head and tail values.
C2_AvailablePlusSpace ==
    Available(head_, tail_) + Space(head_, tail_) = Capacity - 1

\* C2 witness: the buffer holds data again after a clear() that followed
\* writes and reads.
C2_Witness ==
    /\ clears > 0
    /\ Len(readOut) > 0
    /\ head_ < tail_
    /\ Available(head_, tail_) > 0
    /\ Available(head_, tail_) + Space(head_, tail_) = Capacity - 1

\* C3: write(data, n) on a buffer holding a unread bytes returns
\* min(n, Capacity - 1 - a), appends exactly that many leading bytes of data
\* and leaves the unread bytes unchanged.
C3_WritePartial ==
    [][ WriterStep =>
          /\ (w'.pc \in {"copy1", "copy2", "store"} \/ (w.pc = "loadTail" /\ w'.pc = "done")) =>
                w'.toWrite = Min(Len(w'.data), Capacity - 1 - Available(w'.head, w'.tail))
          /\ (w.pc = "store") =>
                /\ w'.pc = "done"
                /\ w'.ret = Min(Len(w.data), Capacity - 1 - Available(w.head, w.tail))
                /\ Contents' = Contents \o Take(w.data, w'.ret)
          /\ (w.pc # "store") => Contents' = Contents
      ]_vars

\* C3 witness: a write of Capacity bytes into an empty buffer has returned
\* Capacity - 1.
C3_Witness ==
    /\ w.pc = "done"
    /\ Len(w.data) = Capacity
    /\ w.ret = Capacity - 1
    /\ Contents = Take(w.data, Capacity - 1)

\* C4: write never changes tail and read never changes head; a write or read
\* that transfers 0 bytes changes neither index nor any buffered byte.
C4_Frame ==
    [][ /\ WriterStep => tail_' = tail_
        /\ ReaderStep => head_' = head_ /\ buffer_' = buffer_
        /\ (WriterStep /\ w'.pc = "done" /\ w'.ret = 0) => w.pc \in {"idle", "loadTail"}
        /\ (WriterStep /\ w.pc \in {"idle", "loadHead", "loadTail"}) =>
              UNCHANGED <<head_, tail_, buffer_>>
        /\ (ReaderStep /\ r'.pc = "done" /\ r'.ret = 0) => r.pc \in {"idle", "loadHead"}
        /\ (ReaderStep /\ r.pc \in {"idle", "loadTail", "loadHead"}) =>
              UNCHANGED <<head_, tail_, buffer_>>
      ]_vars

\* C4 witness: a write on a full buffer has returned 0 after the reader
\* drained the buffer at least once.
C4_Witness ==
    /\ w.pc = "done"
    /\ ~w.null
    /\ Len(w.data) > 0
    /\ w.ret = 0
    /\ Available(head_, tail_) = Capacity - 1
    /\ Len(readOut) > 0

(***************************************************************************)
(* Properties of RtAudioOutput.                                            *)
(***************************************************************************)
\* a step of the callback thread
CbStep == cb' # cb

\* C5: a callback invocation that is not stopping fills the whole requested
\* region: first the next k bytes of the ring buffer in FIFO order,
\* k = min(requested, available), then zeros; it returns 0 and consumes k bytes.
C5_CallbackFill ==
    [][ (CbStep /\ cb.pc = "read") =>
          LET k == Min(cb.size, Available(r.head, r.tail))
          IN /\ cb'.pc = "ret"
             /\ cb'.ret = 0
             /\ Len(cb'.out) = cb.size
             /\ k <= Len(readOut)
             /\ cb'.out = SubSeq(readOut, Len(readOut) - k + 1, Len(readOut))
                             \o Fill(cb.size - k, 0)
             /\ (clears = 0 => IsPrefix(readOut, written))
             /\ tail_ = SizeT(r.tail + k)
      ]_vars

\* C5 witness: a callback has delivered some buffered bytes followed by silence.
C5_Witness ==
    /\ cb.pc = "ret"
    /\ cb.ret = 0
    /\ Len(cb.out) = 4
    /\ cb.out[1] = 1
    /\ cb.out[2] = 2
    /\ cb.out[3] = 0
    /\ cb.out[4] = 0

\* the stream has been stopped, opened again and started
Restarted == opens >= 2 /\ stream.running /\ ctl.pc = "idle"

\* C7: after stop(), open() and start() the ring buffer starts empty, a write()
\* stores its bytes and a callback invocation delivers data and returns 0.
C7_RestartFunctional ==
    [][ Restarted =>
          /\ (w.pc = "idle" /\ w'.pc # "idle" /\ Len(w'.data) > 0) => w'.pc = "loadHead"
          /\ (cb.pc = "check" /\ cb'.pc # "check") => cb'.pc = "lock"
          /\ (cb.pc = "read" /\ cb'.pc = "ret") => cb'.ret = 0
      ]_vars

\* C8: the callback never waits for the component mutex.
C8_CallbackNeverWaits == ~(cb.pc = "lock" /\ mutex_ = "ctl")

(***************************************************************************)
(* C9: stop() of an audio component executes the index stores of the ring  *)
(* buffer's clear only while no callback is in progress and no callback    *)
(* can start any more, whatever stopStream() and closeStream() reported,   *)
(* and no ring write or read of a callback is under way during the clear.  *)
(***************************************************************************)
C9_ClearExclusive ==
    ctl.pc \in {"clearHead", "clearTail"} =>
        /\ cb.pc = "idle"
        /\ ~stream.running
        /\ w.pc = "idle"
        /\ r.pc = "idle"

(***************************************************************************)
(* C10: read(promise) of an active input with no parked promise reads one  *)
(* chunk at once when at least cChunkSize bytes are buffered and parks the *)
(* promise otherwise; a callback that gets the mutex while a promise is    *)
(* parked and a chunk is buffered reads one chunk for it; every promise    *)
(* that becomes resolved carries exactly cChunkSize bytes, the oldest      *)
(* unread ones, and a resolving callback empties the parked slot.          *)
(***************************************************************************)
C10_ReadChunk ==
    [][ /\ (app.pc = "check" /\ app' # app /\ isActive_ /\ readPromise_ = 0) =>
            IF Available(head_, tail_) >= cChunkSize
            THEN /\ app'.pc = "read"
                 /\ r'.pc = "loadTail"
                 /\ r'.size = cChunkSize
                 /\ readPromise_' = 0
            ELSE /\ readPromise_' = app.p
                 /\ promises'[app.p].state = "pending"
                 /\ r' = r
        /\ (cb.pc = "write" /\ cb' # cb /\ mutex_ = "none" /\ readPromise_ # 0
              /\ Available(head_, tail_) >= cChunkSize) =>
            /\ cb'.pc = "read"
            /\ r'.size = cChunkSize
        /\ (cb.pc = "read" /\ cb' # cb) =>
            /\ readPromise_ # 0
            /\ promises[readPromise_].parked
            /\ promises'[readPromise_].state = "resolved"
            /\ readPromise_' = 0
        /\ \A p \in 1..Len(promises) :
              (promises[p].state = "pending" /\ promises'[p].state = "resolved") =>
                 /\ Len(promises'[p].data) = cChunkSize
                 /\ Len(readOut) >= cChunkSize
                 /\ promises'[p].data =
                       SubSeq(readOut, Len(readOut) - cChunkSize + 1, Len(readOut))
                 /\ (clears = 0 => IsPrefix(readOut, written))
                 /\ promises'[p].settled = 1
      ]_vars

\* a parked promise was resolved by a callback and a later read() was served
\* at once, each with one chunk of the recorded data in order
C10_Witness ==
    /\ Len(promises) = 2
    /\ promises[1].parked /\ promises[1].state = "resolved"
    /\ ~promises[2].parked /\ promises[2].state = "resolved"
    /\ promises[1].data \o promises[2].data = Take(written, 2 * cChunkSize)

(***************************************************************************)
(* C6: over the successful zero-copy submissions of displayFrame at most   *)
(* two frame references are alive, between submissions at most two         *)
(* framebuffers are held and two GEM handles tracked, and the frame        *)
(* reference, framebuffer and handle of submission i are released by the   *)
(* rotation of submission i+2 or a later one, or by stop() or              *)
(* emergencyCleanup(), never earlier.                                      *)
(***************************************************************************)
C6_RetainTwo ==
    /\ Cardinality(refs) <= 2
    /\ vw.pc = "idle" =>
          /\ Cardinality(kfbs) <= 2
          /\ Cardinality({currentHandle_, previousHandle_} \ {0}) <= 2
    /\ \A e \in released :
          e.by = "rotation" => e.at >= e.sub + 2

(***************************************************************************)
(* C11: at most one read promise is parked in the audio input; a read()    *)
(* that finds one parked is rejected at once and leaves the parked promise *)
(* parked and unchanged.                                                   *)
(***************************************************************************)
Parked == {p \in 1..Len(promises) : promises[p].parked /\ promises[p].state = "pending"}

C11_OneParked ==
    [][ /\ Cardinality(Parked) <= 1
        /\ \A p \in Parked : readPromise_ = p
        /\ (app.pc = "check" /\ app' # app /\ readPromise_ # 0) =>
              /\ promises'[app.p].state = "rejected"
              /\ ~promises'[app.p].parked
              /\ app'.pc = "idle"
              /\ readPromise_' = readPromise_
              /\ promises'[readPromise_] = promises[readPromise_]
              /\ r' = r
      ]_vars

\* the second read() was rejected while the first is still parked on an
\* active input
C11_Witness ==
    /\ Len(promises) = 2
    /\ isActive_
    /\ readPromise_ = 1
    /\ promises[1].parked /\ promises[1].state = "pending"
    /\ promises[2].state = "rejected"
    /\ app.pc = "idle"

(***************************************************************************)
(* C12: when stop() of the audio input returns, the parked promise, if     *)
(* any, has been rejected, no promise is parked, isActive_ is false and    *)
(* the ring buffer is empty; a read() on the stopped input is rejected.    *)
(***************************************************************************)
C12_StopLeavesEmpty ==
    [][ /\ (ctl.pc = "reject" /\ ctl' # ctl) =>
              /\ ctl'.pc = "idle"
              /\ readPromise_' = 0
              /\ (readPromise_ # 0 => promises'[readPromise_].state = "rejected")
              /\ ~isActive_'
              /\ Available(head_', tail_') = 0
        /\ (app.pc = "check" /\ app' # app /\ ~isActive_) =>
              promises'[app.p].state = "rejected"
      ]_vars

(***************************************************************************)
(* C13: the audio-input callback, when not stopping, starts its ring write *)
(* whoever holds the mutex, never waits for the mutex, and when another    *)
(* thread holds it returns 0 without touching the parked promise, which    *)
(* stays parked.                                                           *)
(***************************************************************************)
C13_CallbackTryLock ==
    [][ /\ (cb.pc = "check" /\ cb' # cb /\ ~isStopping_) =>
              /\ cb'.pc = "write"
              /\ w'.pc # "idle"
              /\ mutex_' = mutex_
        /\ (cb.pc = "write" /\ w.pc = "done") => ENABLED InCbTryLock
        /\ (cb.pc = "write" /\ cb' # cb /\ mutex_ # "none") =>
              /\ cb'.pc = "ret"
              /\ cb'.ret = 0
              /\ mutex_' = mutex_
              /\ readPromise_' = readPromise_
              /\ promises' = promises
              /\ r' = r
      ]_vars

\* a callback has returned without serving the parked promise although a
\* chunk is buffered, because another thread holds the mutex
C13_Witness ==
    /\ cb.pc = "ret"
    /\ mutex_ \in {"ctl", "app"}
    /\ readPromise_ # 0
    /\ promises[readPromise_].state = "pending"
    /\ Available(head_, tail_) >= cChunkSize
    /\ ~isStopping_

(***************************************************************************)
(* C14: stop() sets the stopping flag before it acquires the component     *)
(* mutex: whenever stop() holds the mutex the flag is already set, so a    *)
(* callback that starts then observes it.                                  *)
(***************************************************************************)
C14_FlagBeforeLock ==
    (mutex_ = "ctl" /\ ctl.pc \in {"stopFlag", "stopStream", "closeStream",
                                    "clearHead", "clearTail", "reject"})
        => isStopping_

(***************************************************************************)
(* C15: every invocation of a real-time audio callback returns the benign  *)
(* status 0, also while the component is stopping.                         *)
(***************************************************************************)
C15_CallbackReturnsZero == cb.pc = "ret" => cb.ret = 0


\* C16: whenever no call of the FFmpeg/DRM video output is in progress, an
\* Active component (isActive_ true) has its decoder context and an
\* initialized display.
C16_ActiveImpliesOpened ==
    (mutex_ = "none" /\ isActive_) => (codecCtx_ /\ drmInitialized_)


\* DRM files and decoder contexts alive in the process
AliveFiles == leaked.files + (IF drmFd_ >= 0 THEN 1 ELSE 0)
AliveCtxs == leaked.ctxs + (IF codecCtx_ THEN 1 ELSE 0)

\* C17: open() runs initDecoder() only after initDrmDisplay() of the same
\* open() succeeded, and a decoder context appears in no other step; an
\* open() that returns true leaves display and decoder initialized; an open()
\* in which either step fails returns false with the DRM file it opened
\* closed, the decoder context it allocated freed, and no framebuffer or GEM
\* handle held.
C17_OpenOrderAndCleanup ==
    [][ /\ (vw'.pc = "initDecoder" /\ vw.pc # "initDecoder")
              => (vw.pc = "idle" /\ opens' = opens + 1 /\ drmInitialized_'
                  /\ drmFd_' >= 0 /\ codecCtx_' = codecCtx_)
        /\ (codecCtx_' /\ ~codecCtx_)
              => (vw.pc = "initDecoder" /\ drmInitialized_ /\ drmFd_ >= 0)
        /\ (vw.pc = "initDecoder" /\ vw' # vw)
              => /\ vres'.op = "open"
                 /\ vw' = VwIdle /\ mutex_' = "none"
                 /\ IF vres'.ok
                    THEN codecCtx_' /\ drmInitialized_' /\ drmFd_' >= 0
                    ELSE /\ ~codecCtx_' /\ ~drmInitialized_' /\ drmFd_' = -1
                         /\ kfbs' = {} /\ kgem' = {}
                         /\ AliveFiles' = AliveFiles - 1
                         /\ AliveCtxs' <= AliveCtxs
        /\ (vw.pc = "idle" /\ opens' = opens + 1 /\ vw'.pc = "idle")
              => /\ vres' = [op |-> "open", ok |-> FALSE]
                 /\ mutex_' = "none"
                 /\ ~drmInitialized_' /\ drmFd_' = -1
                 /\ kfbs' = {} /\ kgem' = {}
                 /\ AliveFiles' <= AliveFiles
                 /\ codecCtx_' = codecCtx_ ]_vars

C17_Witness ==
    /\ vres = [op |-> "open", ok |-> FALSE]
    /\ opens = 2
    /\ leaked.files = 1 /\ leaked.ctxs = 1
    /\ drmFd_ = -1 /\ ~codecCtx_ /\ ~drmInitialized_
    /\ mutex_ = "none"


\* what a successful open() establishes, per kind of video output
Opened == IF impl = "ffmpeg" THEN codecCtx_ /\ drmInitialized_ ELSE pipeline_

\* C18: an init() on a component that is not opened returns false and the
\* component is inactive afterwards; on an opened, inactive component it
\* returns true and the component is Active; on an Active component it
\* returns true and changes nothing else.
C18_InitContract ==
    [][ (vres'.op = "init" /\ vres' # vres)
           => IF ~Opened
              THEN ~vres'.ok /\ ~isActive_'
              ELSE IF isActive_
              THEN /\ vres'.ok
                   /\ UNCHANGED <<isActive_, frameCount_, slotVars, codecCtx_,
                                  drmInitialized_, drmFd_, kfbs, kgem, refs,
                                  pipeline_, appsrc_, pushed>>
              ELSE vres'.ok /\ isActive_' ]_vars


\* C19: while the video output is not Active (isActive_ false, or the last
\* call was an open() that returned false), a write() returns without
\* changing any field of the component or any kernel / pipeline object, and
\* no step hands a packet to the decoder, a frame to the display or a buffer
\* to the pipeline.
C19_InactiveWriteNoOp ==
    [][ (mutex_ = "none" /\ (~isActive_ \/ vres = [op |-> "open", ok |-> FALSE]))
           => /\ (vres'.op = "write" /\ vres' # vres)
                    => /\ ~vres'.ok
                       /\ UNCHANGED <<isActive_, mutex_, frameCount_, slotVars,
                                      codecCtx_, drmInitialized_, drmFd_, vw,
                                      kfbs, kgem, refs, subs, owners, released,
                                      leaked, pipeline_, appsrc_, pipelines,
                                      pushed>>
              /\ mutex_' # "write"
              /\ subs' = subs
              /\ pushed' = pushed
              /\ (frameCount_' # frameCount_ => vres'.op = "init") ]_vars


\* the framebuffers and GEM handles of the retained slots that the kernel holds
RetainedFbs == {currentFbId_, previousFbId_} \cap kfbs
RetainedHandles == {g \in kgem : g.id \in {currentHandle_, previousHandle_}}

\* C20: when drmPrimeFDToHandle, drmModeAddFB2 or drmModeSetPlane fails,
\* displayFrame returns with the retained frame references, framebuffer ids
\* and GEM handles unchanged and still alive and with the component still
\* Active; write() then returns, counting the frame, and leaves the component
\* ready for the next write().
C20_FailedFrameDropped ==
    [][ /\ (vw.pc \in {"import", "addfb", "setplane"} /\ vw'.pc = "failed")
              => /\ UNCHANGED <<slotVars, isActive_, codecCtx_, drmInitialized_,
                                drmFd_, refs, subs, frameCount_>>
                 /\ RetainedFbs' = RetainedFbs
                 /\ RetainedHandles' = RetainedHandles
        /\ (vw.pc = "failed") => ENABLED VidWriteReturn
        /\ (vw.pc = "failed" /\ vw' # vw)
              => /\ vw' = VwIdle
                 /\ mutex_' = "none"
                 /\ vres' = [op |-> "write", ok |-> FALSE]
                 /\ frameCount_' = frameCount_ + 1
                 /\ UNCHANGED <<slotVars, isActive_, codecCtx_, drmInitialized_,
                                drmFd_, refs, subs, kfbs, kgem>> ]_vars

\* a frame is on screen and displayFrame has just failed for the DRM_PRIME
\* frame of the next write(), which is about to return
C20_Witness ==
    /\ vw.pc = "failed"
    /\ vw.prime
    /\ isActive_
    /\ subs = 1
    /\ frameCount_ = 1
    /\ currentFbId_ \in kfbs
    /\ displayedFrame_ \in refs


\* C21: while open() is in initDecoder(), the outcome in which every hardware
\* device context fails and the rest succeeds is one of initDecoder's and
\* leaves a decoder with usingHwAccel_ false, and with it open() returns true; an open() that returns true has a
\* decoder whatever usingHwAccel_ is; and every decoded frame goes to the
\* zero-copy path exactly if its format is DRM_PRIME, otherwise to the
\* software path, whatever usingHwAccel_ is.
C21_SoftwareFallback ==
    [][ /\ (vw.pc = "initDecoder" /\ ~g_signalReceived)
              => /\ "oksw" \in InitDecoderOutcomes
                 /\ LET st == InitDecoder(VState, "oksw")
                    IN st.codecCtx /\ ~st.usingHwAccel /\ st.drmInitialized
        /\ (vw.pc = "initDecoder" /\ vw' # vw /\ codecCtx_' /\ ~usingHwAccel_')
              => vres'.ok
        /\ (vw.pc = "initDecoder" /\ vw' # vw /\ vres'.ok) => codecCtx_'
        /\ (vw.pc = "initDecoder" /\ vw' # vw /\ ~vres'.ok) => ~usingHwAccel_'
        /\ (vw.pc = "idle" /\ vw'.pc \in {"import", "software"})
              => /\ (vw'.pc = "import") = vw'.prime
                 /\ usingHwAccel_' = usingHwAccel_
        /\ (vw.pc = "import" /\ vw' # vw) => vw'.pc \in {"addfb", "failed"}
        /\ (vw.pc = "software" /\ vw' # vw) => vw'.pc \in {"done", "failed"} ]_vars

\* open() returned true without hardware acceleration and a DRM_PRIME frame
\* is in the zero-copy path
C21_Witness ==
    /\ ~usingHwAccel_
    /\ codecCtx_ /\ drmInitialized_ /\ isActive_
    /\ vw.pc = "addfb"
    /\ vw.prime


\* C22: emergencyCleanup(), run by the signal handler at any point of
\* write() / displayFrame() of a component whose open() calls each followed a
\* stop(), releases no frame reference, framebuffer id or GEM handle that was
\* already released, and none twice.
C22_SignalNoDoubleRelease ==
    (g_signalReceived /\ mutex_ = "write" /\ leaked.files = 0)
       => \A d \in doubles : d.by # "signal"

\* C23: emergencyCleanup() never acquires the component mutex, releases only
\* the two retained frame references, the current/previous GEM handles and
\* the current/previous framebuffers, performs no logging and no allocation,
\* and the signal handler runs it at most once however many signals arrive.
C23_EmergencyCleanupMinimal ==
    [][ /\ (sig'.runs # sig.runs) =>
              /\ mutex_' = mutex_
              /\ refs \ refs' \subseteq {displayedFrame_, previousDisplayedFrame_}
              /\ {g.id : g \in kgem \ kgem'} \subseteq {currentHandle_, previousHandle_}
              /\ kfbs \ kfbs' \subseteq {currentFbId_, previousFbId_}
              /\ refs' \subseteq refs /\ kgem' \subseteq kgem /\ kfbs' \subseteq kfbs
              /\ codecCtx_' = codecCtx_ /\ drmFd_' = drmFd_ /\ leaked' = leaked
              /\ sig'.logs = sig.logs
        /\ sig'.runs <= 1 ]_vars

\* the retained slots of the FFmpeg output hold nothing
SlotsEmpty ==
    /\ displayedFrame_ = NoFrame /\ previousDisplayedFrame_ = NoFrame
    /\ currentFbId_ = 0 /\ previousFbId_ = 0
    /\ currentHandle_ = 0 /\ previousHandle_ = 0

\* C24: stop() releases every held resource exactly once and is idempotent.
\* When stop() returns the component is inactive and holds no frame reference,
\* framebuffer, GEM handle, software buffer or decoder (Kmssink: no pipeline),
\* so that a further stop() finds nothing to release; on a component whose
\* open() calls each followed a stop() nothing is released a second time and
\* nothing stays behind in the kernel; and an init() that then succeeds gives
\* an Active component whose slots hold no buffer of the session before.
C24_StopReleasesOnce ==
    [][ /\ (vres'.op = "stop" /\ vres' # vres)
              => /\ ~isActive_'
                 /\ impl = "ffmpeg"
                       => /\ SlotsEmpty'
                          /\ ~codecCtx_' /\ ~swsCtx_' /\ ~swDumbHandle_'
                          /\ drmFd_' = -1 /\ ~drmInitialized_'
                 /\ (impl = "ffmpeg" /\ leaked.files = 0 /\ leaked.ctxs = 0)
                       => /\ refs' = {} /\ kfbs' = {} /\ kgem' = {}
                          /\ \A d \in doubles' \ doubles : d.by # "stop"
                 /\ impl = "kmssink" => ~pipeline_' /\ ~appsrc_'
        /\ (~isActive_ /\ isActive_' /\ impl = "ffmpeg"
              /\ leaked.files = 0 /\ leaked.ctxs = 0)
              => /\ vres' = [op |-> "init", ok |-> TRUE]
                 /\ SlotsEmpty' /\ ~swDumbHandle_' /\ ~swsCtx_' ]_vars

\* C25 as stated: once the negotiation has stored its result, a DAC whose
\* maximum rate is 96000 and a source at 48000 give nativeOffload_ = true and
\* the output rate 48000; a DAC whose maximum rate is 48000 and a source at
\* 192000 give nativeOffload_ = false and the output rate 44100.
C25_OffloadExamples ==
    worker.pc = "loop"
       => /\ (RateMax(dac.rates) = 96000 /\ track.rate = 48000)
                => nativeOffload_ /\ sampleRate_ = 48000
          /\ (RateMax(dac.rates) = 48000 /\ track.rate = 192000)
                => ~nativeOffload_ /\ sampleRate_ = 44100

\* C25: the same with the rate the ladder gives for a DAC whose maximum is
\* 48000, which is the highest standard rate at or below it, 48000.
C25_OffloadExamplesHighest ==
    worker.pc = "loop"
       => /\ (RateMax(dac.rates) = 96000 /\ track.rate = 48000)
                => nativeOffload_ /\ sampleRate_ = 48000
          /\ (RateMax(dac.rates) = 48000 /\ track.rate = 192000)
                => ~nativeOffload_ /\ sampleRate_ = 48000

\* a 192000 source has been negotiated down for a DAC whose maximum is 48000
C25_Witness ==
    /\ worker.pc = "loop"
    /\ RateMax(dac.rates) = 48000
    /\ track.rate = 192000
    /\ ~nativeOffload_
    /\ sampleRate_ = 48000

\* C26: whenever the stored result of the negotiation says nativeOffload_,
\* the stored output rate is the source rate of the file.
C26_OffloadKeepsSourceRate ==
    (worker.pc = "loop" /\ nativeOffload_) => sampleRate_ = track.rate

C28_StopDecodeThreadReturns ==
    [][ /\ (pm.pc = "wait" /\ pm' # pm) => pm'.pc = "delete"
        /\ (pm.pc = "delete" /\ (pm' # pm \/ crashed' # crashed))
              => /\ ~crashed'
                 /\ pm' = PmIdle
                 /\ worker.pc \in {"none", "done"}
                 /\ decodeThread_' = (pm.then = "start")
        /\ (worker'.pc = "open" /\ worker.pc # "open")
              => worker.pc \in {"none", "done"} ]_vars

C30_CursorDrawnOnce ==
    [][ /\ cursorVisible_' => cursorInitialized_'
        /\ kcursor'.drawn = (IF cursorInitialized_' THEN 1 ELSE 0)
        /\ kcursor'.drawn > kcursor.drawn => ~cursorInitialized_ /\ cursorInitialized_'
        /\ (cursorInitialized_ /\ CursorInit) => UNCHANGED vars
        /\ (~cursorInitialized_ /\ (CursorUpdatePosition \/ CursorSetVisible))
              => UNCHANGED vars
        /\ (CursorUpdatePosition \/ CursorSetVisible)
              => /\ kcursor'.drawn = kcursor.drawn
                 /\ UNCHANGED <<cursorInitialized_, cursorDrmFd_, cursorBufferHandle_>> ]_vars

\* in the second session the cursor is initialized, shown and moved
C30_Witness ==
    /\ opens = 2
    /\ isActive_
    /\ cursorInitialized_
    /\ cursorVisible_
    /\ kcursor = [shown |-> TRUE, x |-> 1, y |-> 1, drawn |-> 1]

\* C31: renderFrame returns true exactly when its frame was pushed to the
\* pipeline, and false otherwise.
C31_RenderFrameResult ==
    [][ KmsRenderFrame => (vres'.ok <=> pushed' = pushed + 1) ]_vars

\* the standard rates within the range of the DAC of this run
LadderInRange ==
    {x \in {192000, 176400, 96000, 88200, 48000, 44100} :
        x >= RateMin(dac.rates) /\ x <= RateMax(dac.rates)}
\* the rate C32 names: the highest of them, 44100 if there is none
LadderRate ==
    IF LadderInRange = {} THEN 44100
    ELSE CHOOSE x \in LadderInRange : \A y \in LadderInRange : x >= y

C32_WitnessHighest ==
    /\ worker.pc = "loop"
    /\ track.rate = 192000
    /\ dac.rates = {44100, 48000, 88200, 96000}
    /\ sampleRate_ = 96000
    /\ ~nativeOffload_

\* C33: stop() of the audio output is never at closeStream(), which joins the
\* callback thread, holding the component mutex while that thread is inside
\* a callback invocation waiting for the same mutex.
C33_StopNeverBlocksCallback ==
    ~(/\ ctl.pc = "close"
      /\ mutex_ = "ctl"
      /\ stream.open
      /\ cb.pc = "lock")

\* C34: once stop() of the audio output has returned and no write() is in
\* progress, the ring buffer is empty (isStopping_ stays set from then on, so
\* every later write() returns at its check).
C34_StopThenWriteLeavesEmpty ==
    (isStopping_ /\ ctl.pc = "idle" /\ w.pc = "idle" /\ clears >= 1)
        => Available(head_, tail_) = 0

\* the callbacks of the stream can still deliver data
Delivering == stream.running /\ Len(written) < MaxProduced

C36_UserCommandNotOverridden ==
    [][ PlayerDispatch => (Head(pq).play = plays /\ decodeThread_) ]_vars

\* a decode thread that leaves its loop with a stop requested ends without
\* emitting trackFinished()
C36_StopEmitsNothing ==
    [][ (worker.pc = "exit" /\ stopRequested_)
            => (worker'.pc \in {"exit", "done"} /\ emitted' = emitted) ]_vars

\* C37: playlistIndex_ stays within -1 .. size-1, and nextTrack() reads
\* playlist_.at(playlistIndex_) under RepeatOne only with an index inside the
\* playlist (the other element accesses are behind their own range checks).
C37_PlaylistIndexInRange ==
    [][ /\ playlistIndex_' \in -1..(playlist_' - 1)
        /\ ((PlayerNextTrack \/ (PlayerDispatch /\ Head(pq).op = "nextTrack"))
               /\ playlist_ > 0 /\ repeatMode_ = 2)
              => playlistIndex_ \in 0..(playlist_ - 1) ]_vars

\* C38: when the decode thread has ended and no stop was requested (the
\* track ended or the setup failed), playing_ is false.
C38_ExitedWorkerNotPlaying ==
    (decodeThread_ /\ worker.pc = "done" /\ ~stopRequested_) => ~playing_

\* C39: when a zero-copy submission of displayFrame has succeeded,
\* currentHandle_ and previousHandle_ (if set) name GEM handles that are
\* open in the kernel.
C39_TrackedHandlesOpen ==
    (vw.pc = "done" /\ vw.prime /\ ~g_signalReceived)
        => /\ currentHandle_ \in {g.id : g \in kgem}
           /\ previousHandle_ # 0 => previousHandle_ \in {g.id : g \in kgem}

\* C40: no GEM handle imported by displayFrame outlives the session: once
\* emergencyCleanup() has run between two writes, or stop() has closed the
\* DRM file, no imported handle is open in the kernel.
C40_ImportedHandlesClosed ==
    /\ (g_signalReceived /\ vw.pc = "idle") => kgem = {}
    /\ (~g_signalReceived /\ drmFd_ < 0) => kgem = {}

====
